---- MODULE Spec2Model ----
(***************************************************************************)
(* Deferred-cleanup engines of errgo-ts: defer.safe, defer.throwing,       *)
(* defer.handled (src/src/defer.ts) and withDefer, withDefer.handled       *)
(* (src/src/with-defer.ts), run on a single-threaded JavaScript call stack *)
(* with promise continuations.                                             *)
(***************************************************************************)
EXTENDS Integers, Sequences, FiniteSets, TLC

\* ---------------------------------------------------------------- bounds
\* most callbacks one invocation's action registers
MaxDefer == 3
\* most callbacks registered through one handle when two invocations run
MaxNestedDefer == 2
\* most callbacks one action registers in the runs checked for progress
MaxFairDefer == 2
\* most callbacks an action registers when callbacks use the handle too
MaxHandleDefer == 2
\* calls of a callback that registers itself again which the history keeps
MaxAgain == 2
\* most registrations when an action passes one function more than once
MaxSameDefer == 3
\* most callbacks an action registers before it returns a thenable
MaxThenableDefer == 2
\* most callbacks an action registers when it is given to two entry points
MaxPairDefer == 2
\* most times a suspended asynchronous action body is resumed
MaxSegments == 1

\* ------------------------------------------------------- JavaScript values
\* A value is a record: kind (typeof, or "error" for an instance of Error),
\* text (String(v), or the message of an Error), json (JSON.stringify(v) of an
\* object, "throws" when it raises) and cause (<<>> when there is none).
JsNull == [kind |-> "null", text |-> "null", json |-> "", cause |-> <<>>]
JsUndefined == [kind |-> "undefined", text |-> "undefined", json |-> "", cause |-> <<>>]
JsZero == [kind |-> "number", text |-> "0", json |-> "", cause |-> <<>>]
JsFalse == [kind |-> "boolean", text |-> "false", json |-> "", cause |-> <<>>]
JsString == [kind |-> "string", text |-> "oops", json |-> "", cause |-> <<>>]
JsObject == [kind |-> "object", text |-> "[object Object]", json |-> "{}", cause |-> <<>>]
\* an object with a circular reference
JsCircular == [kind |-> "object", text |-> "[object Object]", json |-> "throws", cause |-> <<>>]
ErrBoom == [kind |-> "error", text |-> "boom", json |-> "", cause |-> <<>>]
ErrCleanup == [kind |-> "error", text |-> "cleanup failed", json |-> "", cause |-> <<>>]
ErrHandler == [kind |-> "error", text |-> "handler failed", json |-> "", cause |-> <<>>]

\* what an action may return or resolve with
ReturnValues == {JsNull, JsUndefined, JsZero, JsFalse, JsObject}
\* what an action may throw or reject with
ThrownValues == {ErrBoom, JsString, JsNull, JsUndefined, JsObject, JsCircular}

\* e instanceof Error
IsError(e) == e.kind = "error"

\* new Error(message, { cause })
NewError(message, c) == [kind |-> "error", text |-> message, json |-> "", cause |-> <<c>>]

\* try { JSON.stringify(e) }: ok = FALSE when it raises
JsonStringify(e) == [ok |-> e.json # "throws", text |-> e.json]

eString(e) ==
  IF e.kind = "null" THEN "null"
  ELSE IF e.kind = "object"
       THEN IF JsonStringify(e).ok THEN JsonStringify(e).text ELSE e.text
       ELSE e.text

\* the thrown value is passed on as it is
ensureErrorIdentity(e) == e

ensureError(e) ==
  IF IsError(e) THEN e
  ELSE NewError("Non-Error object was thrown: " \o eString(e), e)

\* utils of with-defer.ts: the normalizer and the context wrapper
handleUnknown(e) ==
  IF IsError(e) THEN e
  ELSE NewError("Unknown error: " \o eString(e), e)

wrapError(msg, e) == NewError(msg, handleUnknown(e))

\* ------------------------------------------------------------- the engines
Invs == {"A"}
DeferStrategies == {"safe", "throwing", "handled"}
WithDeferStrategies == {"withDefer", "withDeferHandled"}
Strategies == DeferStrategies \cup WithDeferStrategies
HandledStrategies == {"handled", "withDeferHandled"}
ValueReturnStrategies == {"safe", "withDefer"}
\* what a registered callback does when it is called
CallbackKinds == {"ok", "throw", "asyncOk", "asyncReject"}
\* what the supplied onError does when it is called
HandlerKinds == {"returns", "throws"}

NoRet == [how |-> "none", shape |-> "none", val |-> <<>>, err |-> <<>>]

VARIABLES
  stack,        \* call stack: the invocations executing synchronously, top last
  pc,           \* per invocation: idle, running, suspended, resumed, queued,
                \*   draining, handling, settled
  strat,        \* per invocation: the entry point that was called
  onError,      \* per invocation: behaviour of the supplied handler
  deferQueue,   \* per invocation: the queue of registered callbacks
  idx,          \* per invocation: loop index i of defer.ts executeDefers
  isPromise,    \* per invocation: res instanceof Promise was true
  caught,       \* per invocation: <<>> or <<[ok, v]>>, the value or the error the engine holds
  ret,          \* per invocation: what the engine returned, raised, resolved or rejected with
  segs,         \* per invocation: resumptions of the asynchronous action body so far
  regs,         \* history: per registration, the callback's kind and the pc it was made at
  acted,        \* history: <<>> or <<[ok, v]>>, how the action itself settled
  order,        \* history: registration numbers in the order their callbacks were called
  handlerArgs,  \* history: arguments onError was called with
  warns,        \* console.warn calls so far
  tails,        \* pending results returned by cleanup callbacks, not yet settled
  unhandled,    \* rejections of pending results nobody attached a handler to
  parent,       \* history: the invocation inside whose action this one was started
  util,         \* the call of propagateError or ensureError in progress
  same,         \* history: per invocation, pairs <<r, f>>: registration r passed the
                \*   function first passed at registration f
  jobs,         \* the microtask queue: invocations whose continuation is to run
  res           \* history: per invocation, <<>> or <<v>>, `const res = action(...)`

vars == <<stack, pc, strat, onError, deferQueue, idx, isPromise, caught, ret, segs,
          regs, acted, order, handlerArgs, warns, tails, unhandled, parent, util, same, jobs, res>>

\* no call of propagateError or ensureError has been made
NoCall ==
  [fn |-> "none", context |-> "", async |-> FALSE, arg |-> <<>>, prev |-> <<>>,
   pc |-> "idle", out |-> NoRet]

Top == IF stack = <<>> THEN "nobody" ELSE stack[Len(stack)]
Pop == SubSeq(stack, 1, Len(stack) - 1)

Init ==
  /\ stack = <<>>
  /\ pc = [i \in Invs |-> "idle"]
  /\ strat = [i \in Invs |-> "none"]
  /\ onError = [i \in Invs |-> "none"]
  /\ deferQueue = [i \in Invs |-> <<>>]
  /\ idx = [i \in Invs |-> 0]
  /\ isPromise = [i \in Invs |-> FALSE]
  /\ caught = [i \in Invs |-> <<>>]
  /\ ret = [i \in Invs |-> NoRet]
  /\ segs = [i \in Invs |-> 0]
  /\ regs = [i \in Invs |-> <<>>]
  /\ acted = [i \in Invs |-> <<>>]
  /\ order = [i \in Invs |-> <<>>]
  /\ handlerArgs = [i \in Invs |-> <<>>]
  /\ warns = <<>>
  /\ tails = {}
  /\ unhandled = {}
  /\ parent = [i \in Invs |-> "none"]
  /\ util = NoCall
  /\ same = [i \in Invs |-> {}]
  /\ jobs = <<>>
  /\ res = [i \in Invs |-> <<>>]

\* safe / throwing / handled / _withDeferImpl are entered: a fresh deferQueue,
\* then action(defer) is called
Invoke(i, s, h) ==
  /\ pc[i] = "idle"
  /\ stack = <<>>
  /\ (s \in HandledStrategies) <=> (h # "none")
  /\ stack' = Append(stack, i)
  /\ pc' = [pc EXCEPT ![i] = "running"]
  /\ strat' = [strat EXCEPT ![i] = s]
  /\ onError' = [onError EXCEPT ![i] = h]
  /\ deferQueue' = [deferQueue EXCEPT ![i] = <<>>]
  /\ UNCHANGED <<res, jobs, same, util, parent, idx, isPromise, caught, ret, segs, regs, acted, order,
                 handlerArgs, warns, tails, unhandled>>

\* the registration handle: (fn) => deferQueue.push(fn)
defer(i, k) ==
  /\ pc[i] \in {"running", "resumed"}
  /\ Top = i
  /\ Len(regs[i]) < MaxDefer
  /\ deferQueue' = [deferQueue EXCEPT ![i] = Append(@, [rid |-> Len(regs[i]) + 1, kind |-> k])]
  /\ regs' = [regs EXCEPT ![i] = Append(@, [kind |-> k, at |-> pc[i]])]
  /\ UNCHANGED <<res, jobs, same, util, parent, stack, pc, strat, onError, idx, isPromise, caught, ret, segs,
                 acted, order, handlerArgs, warns, tails, unhandled>>

\* executeDefers is not called before the return but queued as a microtask
ActionReturnDeferred(i, v) ==
  /\ pc[i] = "running"
  /\ Top = i
  /\ pc' = [pc EXCEPT ![i] = "queued"]
  /\ acted' = [acted EXCEPT ![i] = <<[ok |-> TRUE, v |-> v]>>]
  /\ stack' = Pop
  /\ jobs' = Append(jobs, i)
  /\ UNCHANGED <<res, same, util, parent, strat, onError, deferQueue, idx, isPromise, caught, ret, segs,
                 regs, order, handlerArgs, warns, tails, unhandled>>

\* the action returns a value that is not a Promise: executeDefers is entered
ActionReturn(i, v) ==
  /\ pc[i] = "running"
  /\ Top = i
  /\ pc' = [pc EXCEPT ![i] = "draining"]
  /\ idx' = [idx EXCEPT ![i] = 0]
  /\ caught' = [caught EXCEPT ![i] = <<[ok |-> TRUE, v |-> v]>>]
  /\ acted' = [acted EXCEPT ![i] = <<[ok |-> TRUE, v |-> v]>>]
  /\ UNCHANGED <<res, jobs, same, util, parent, stack, strat, onError, deferQueue, isPromise, ret, segs, regs,
                 order, handlerArgs, warns, tails, unhandled>>

\* the catch block queues executeDefers as a microtask instead of calling it
ActionThrowDeferred(i, e) ==
  /\ pc[i] = "running"
  /\ Top = i
  /\ pc' = [pc EXCEPT ![i] = "queued"]
  /\ acted' = [acted EXCEPT ![i] = <<[ok |-> FALSE, v |-> e]>>]
  /\ stack' = Pop
  /\ jobs' = Append(jobs, i)
  /\ UNCHANGED <<res, same, util, parent, strat, onError, deferQueue, idx, isPromise, caught, ret, segs,
                 regs, order, handlerArgs, warns, tails, unhandled>>

\* the catch block throws the error again without calling executeDefers
ActionThrowSkipsDrain(i, e) ==
  /\ pc[i] = "running"
  /\ Top = i
  /\ pc' = [pc EXCEPT ![i] = "settled"]
  /\ caught' = [caught EXCEPT ![i] = <<[ok |-> FALSE, v |-> e]>>]
  /\ acted' = [acted EXCEPT ![i] = <<[ok |-> FALSE, v |-> e]>>]
  /\ ret' = [ret EXCEPT ![i] = [how |-> "raise", shape |-> "bare", val |-> <<>>, err |-> <<e>>]]
  /\ stack' = Pop
  /\ UNCHANGED <<res, jobs, same, util, parent, strat, onError, deferQueue, idx, isPromise, segs, regs,
                 order, handlerArgs, warns, tails, unhandled>>

\* the action throws synchronously: the catch block is entered
ActionThrow(i, e) ==
  /\ pc[i] = "running"
  /\ Top = i
  /\ pc' = [pc EXCEPT ![i] = "draining"]
  /\ idx' = [idx EXCEPT ![i] = 0]
  /\ caught' = [caught EXCEPT ![i] = <<[ok |-> FALSE, v |-> e]>>]
  /\ acted' = [acted EXCEPT ![i] = <<[ok |-> FALSE, v |-> e]>>]
  /\ UNCHANGED <<res, jobs, same, util, parent, stack, strat, onError, deferQueue, isPromise, ret, segs, regs,
                 order, handlerArgs, warns, tails, unhandled>>

\* no instanceof check: a returned Promise is treated as the value, so
\* executeDefers is entered when the function returns
ActionReturnsPromiseDrains(i) ==
  /\ pc[i] = "running"
  /\ Top = i
  /\ pc' = [pc EXCEPT ![i] = "draining"]
  /\ idx' = [idx EXCEPT ![i] = 0]
  /\ isPromise' = [isPromise EXCEPT ![i] = TRUE]
  /\ caught' = [caught EXCEPT ![i] = <<[ok |-> TRUE, v |-> JsObject]>>]
  /\ UNCHANGED <<res, jobs, same, util, parent, stack, strat, onError, deferQueue, ret, segs, regs, acted,
                 order, handlerArgs, warns, tails, unhandled>>

\* the action returns a Promise: res.then(...) is attached and the engine
\* returns its own pending result
ActionReturnsPromise(i) ==
  /\ pc[i] = "running"
  /\ Top = i
  /\ pc' = [pc EXCEPT ![i] = "suspended"]
  /\ isPromise' = [isPromise EXCEPT ![i] = TRUE]
  /\ stack' = Pop
  /\ UNCHANGED <<res, jobs, same, util, parent, strat, onError, deferQueue, idx, caught, ret, segs, regs, acted,
                 order, handlerArgs, warns, tails, unhandled>>

\* the event loop resumes the body of the asynchronous action
ActionResume(i) ==
  /\ pc[i] = "suspended"
  /\ stack = <<>>
  /\ segs[i] < MaxSegments
  /\ pc' = [pc EXCEPT ![i] = "resumed"]
  /\ segs' = [segs EXCEPT ![i] = @ + 1]
  /\ stack' = Append(stack, i)
  /\ UNCHANGED <<res, jobs, same, util, parent, strat, onError, deferQueue, idx, isPromise, caught, ret, regs,
                 acted, order, handlerArgs, warns, tails, unhandled>>

\* the body of the asynchronous action awaits again
ActionAwait(i) ==
  /\ pc[i] = "resumed"
  /\ Top = i
  /\ pc' = [pc EXCEPT ![i] = "suspended"]
  /\ stack' = Pop
  /\ UNCHANGED <<res, jobs, same, util, parent, strat, onError, deferQueue, idx, isPromise, caught, ret, segs,
                 regs, acted, order, handlerArgs, warns, tails, unhandled>>

\* the action's Promise settles; the continuation given to then is queued
\* as a microtask
ActionSettle(i, o) ==
  /\ pc[i] = "resumed"
  /\ Top = i
  /\ pc' = [pc EXCEPT ![i] = "queued"]
  /\ acted' = [acted EXCEPT ![i] = <<o>>]
  /\ stack' = Pop
  /\ jobs' = Append(jobs, i)
  /\ UNCHANGED <<res, same, util, parent, strat, onError, deferQueue, idx, isPromise, caught, ret, segs,
                 regs, order, handlerArgs, warns, tails, unhandled>>

\* the Promise the action returned settles without the body of the action
\* running again: a plain function that returned a Promise, or an async
\* function that never awaited
ActionPromiseSettle(i, o) ==
  /\ pc[i] = "suspended"
  /\ segs[i] = 0
  /\ stack = <<>>
  /\ pc' = [pc EXCEPT ![i] = "queued"]
  /\ acted' = [acted EXCEPT ![i] = <<o>>]
  /\ jobs' = Append(jobs, i)
  /\ UNCHANGED <<res, same, util, parent, stack, strat, onError, deferQueue, idx, isPromise, caught, ret,
                 segs, regs, order, handlerArgs, warns, tails, unhandled>>

\* the engine stops waiting for the action's Promise and goes on to the cleanup
ContinuationEager(i) ==
  /\ pc[i] \in {"queued", "suspended"}
  /\ stack = <<>>
  /\ pc' = [pc EXCEPT ![i] = "draining"]
  /\ idx' = [idx EXCEPT ![i] = 0]
  /\ caught' = [caught EXCEPT ![i] =
       IF acted[i] = <<>> THEN <<[ok |-> TRUE, v |-> JsUndefined]>> ELSE acted[i]]
  /\ stack' = Append(stack, i)
  /\ jobs' = SelectSeq(jobs, LAMBDA j : j # i)
  /\ UNCHANGED <<res, same, util, parent, strat, onError, deferQueue, isPromise, ret, segs, regs, acted,
                 order, handlerArgs, warns, tails, unhandled>>

\* res.then is given the continuation for fulfilment only
ContinuationOnFulfilOnly(i) ==
  /\ pc[i] = "queued"
  /\ acted[i][1].ok
  /\ stack = <<>>
  /\ jobs # <<>> /\ Head(jobs) = i
  /\ pc' = [pc EXCEPT ![i] = "draining"]
  /\ idx' = [idx EXCEPT ![i] = 0]
  /\ caught' = [caught EXCEPT ![i] = acted[i]]
  /\ stack' = Append(stack, i)
  /\ jobs' = Tail(jobs)
  /\ UNCHANGED <<res, same, util, parent, strat, onError, deferQueue, isPromise, ret, segs, regs, acted,
                 order, handlerArgs, warns, tails, unhandled>>

\* the newest job of the microtask queue runs first
ContinuationLifo(i) ==
  /\ pc[i] = "queued"
  /\ stack = <<>>
  /\ jobs # <<>> /\ jobs[Len(jobs)] = i
  /\ pc' = [pc EXCEPT ![i] = "draining"]
  /\ idx' = [idx EXCEPT ![i] = 0]
  /\ caught' = [caught EXCEPT ![i] = acted[i]]
  /\ stack' = Append(stack, i)
  /\ jobs' = SubSeq(jobs, 1, Len(jobs) - 1)
  /\ UNCHANGED <<res, same, util, parent, strat, onError, deferQueue, isPromise, ret, segs, regs, acted,
                 order, handlerArgs, warns, tails, unhandled>>

\* the continuation given to res.then runs, (v) => {...} or (e) => {...},
\* when it is the oldest job of the microtask queue
Continuation(i) ==
  /\ pc[i] = "queued"
  /\ stack = <<>>
  /\ jobs # <<>> /\ Head(jobs) = i
  /\ pc' = [pc EXCEPT ![i] = "draining"]
  /\ idx' = [idx EXCEPT ![i] = 0]
  /\ caught' = [caught EXCEPT ![i] = acted[i]]
  /\ stack' = Append(stack, i)
  /\ jobs' = Tail(jobs)
  /\ UNCHANGED <<res, same, util, parent, strat, onError, deferQueue, isPromise, ret, segs, regs, acted,
                 order, handlerArgs, warns, tails, unhandled>>

\* ------------------------------------------------------------- the drain
\* the loop stops one callback early
MoreDefersOffByOne(s, q, n) ==
  IF s \in DeferStrategies THEN n < Len(q) - 1 ELSE Len(q) > 1

\* loop condition of executeDefers: `i < queue.length` in defer.ts,
\* `deferQueue.length > 0` in with-defer.ts
MoreDefers(s, q, n) ==
  IF s \in DeferStrategies THEN n < Len(q) ELSE Len(q) > 0

\* the index loop walks the queue from its end
CurrentCallbackLifo(s, q, n) ==
  IF s \in DeferStrategies THEN q[Len(q) - n] ELSE Head(q)

\* the callback the loop body calls: queue[i] in defer.ts, deferQueue.shift()
\* in with-defer.ts
CurrentCallback(s, q, n) ==
  IF s \in DeferStrategies THEN q[n + 1] ELSE Head(q)

\* the callback is read with deferQueue[0] and never removed
QueueAfterNoShift(s, q) == q

\* the queue after the loop body: untouched in defer.ts, shifted in with-defer.ts
QueueAfter(s, q) ==
  IF s \in DeferStrategies THEN q ELSE Tail(q)

JsStr(t) == [kind |-> "string", text |-> t, json |-> "", cause |-> <<>>]

\* the warning is logged without the error that caused it
SyncWarningNoCause(s, i, cb, e) ==
  [inv |-> i, rid |-> cb.rid, async |-> FALSE,
   args |-> <<JsStr("Error in deferred callback:")>>]

\* the console.warn call of the catch block inside the loop
SyncWarning(s, i, cb, e) ==
  IF s \in DeferStrategies
  THEN [inv |-> i, rid |-> cb.rid, async |-> FALSE,
        args |-> <<JsStr("Error in deferred callback:"), e>>]
  ELSE [inv |-> i, rid |-> cb.rid, async |-> FALSE,
        args |-> <<wrapError("Error in deferred callback", e)>>]

\* the console.warn call of result.catch(...) in with-defer.ts
AsyncWarning(i, rid, e) ==
  [inv |-> i, rid |-> rid, async |-> TRUE,
   args |-> <<wrapError("Error in async deferred callback", e)>>]

\* the pending result a callback returned: with-defer.ts attaches a catch
\* (result instanceof Promise), defer.ts drops the returned value
PendingTail(s, i, cb) ==
  [inv |-> i, rid |-> cb.rid, rejects |-> (cb.kind = "asyncReject"),
   caught |-> (s \in WithDeferStrategies)]

\* try/catch around the whole loop instead of around each call: the first
\* throwing callback ends the loop
DrainStepBreakOnThrow(i) ==
  /\ pc[i] = "draining"
  /\ Top = i
  /\ MoreDefers(strat[i], deferQueue[i], idx[i])
  /\ LET cb == CurrentCallback(strat[i], deferQueue[i], idx[i]) IN
       /\ order' = [order EXCEPT ![i] = Append(@, cb.rid)]
       /\ deferQueue' = [deferQueue EXCEPT ![i] =
            IF cb.kind = "throw" /\ strat[i] \in WithDeferStrategies
            THEN <<>> ELSE QueueAfter(strat[i], @)]
       /\ idx' = [idx EXCEPT ![i] =
            IF strat[i] \in DeferStrategies
            THEN (IF cb.kind = "throw" THEN Len(deferQueue[i]) ELSE @ + 1)
            ELSE @]
       /\ warns' = IF cb.kind = "throw"
                   THEN Append(warns, SyncWarning(strat[i], i, cb, ErrCleanup))
                   ELSE warns
       /\ tails' = IF cb.kind \in {"asyncOk", "asyncReject"}
                   THEN tails \cup {PendingTail(strat[i], i, cb)}
                   ELSE tails
  /\ UNCHANGED <<res, jobs, same, util, parent, stack, pc, strat, onError, isPromise, caught, ret, segs, regs,
                 acted, handlerArgs, unhandled>>

\* no try/catch in the loop: a throwing callback's exception leaves
\* executeDefers; inside the try block of a synchronous call it lands in the
\* engine's own catch block (which drains again), anywhere else it leaves the
\* engine
DrainStepNoCatch(i) ==
  /\ pc[i] = "draining"
  /\ Top = i
  /\ MoreDefers(strat[i], deferQueue[i], idx[i])
  /\ LET cb == CurrentCallback(strat[i], deferQueue[i], idx[i])
         escapes == cb.kind = "throw"
         toCatch == escapes /\ ~isPromise[i] /\ caught[i][1].ok
         leaves == escapes /\ ~toCatch
     IN
       /\ order' = [order EXCEPT ![i] = Append(@, cb.rid)]
       /\ deferQueue' = [deferQueue EXCEPT ![i] = QueueAfter(strat[i], @)]
       /\ idx' = [idx EXCEPT ![i] =
            IF toCatch THEN 0
            ELSE IF strat[i] \in DeferStrategies THEN @ + 1 ELSE @]
       /\ caught' = [caught EXCEPT ![i] =
            IF toCatch THEN <<[ok |-> FALSE, v |-> ErrCleanup]>> ELSE @]
       /\ ret' = [ret EXCEPT ![i] =
            IF leaves
            THEN [how |-> IF isPromise[i] THEN "reject" ELSE "raise",
                  shape |-> "bare", val |-> <<>>, err |-> <<ErrCleanup>>]
            ELSE @]
       /\ pc' = [pc EXCEPT ![i] = IF leaves THEN "settled" ELSE @]
       /\ stack' = IF leaves THEN Pop ELSE stack
       /\ tails' = IF cb.kind \in {"asyncOk", "asyncReject"}
                   THEN tails \cup {PendingTail(strat[i], i, cb)}
                   ELSE tails
  /\ UNCHANGED <<res, jobs, same, util, parent, strat, onError, isPromise, segs, regs, acted, handlerArgs,
                 warns, unhandled>>

\* the loop awaits what the callback returns before it goes on
DrainStepAwaitsAsync(i) ==
  /\ pc[i] = "draining"
  /\ Top = i
  /\ MoreDefers(strat[i], deferQueue[i], idx[i])
  /\ LET cb == CurrentCallback(strat[i], deferQueue[i], idx[i]) IN
       /\ order' = [order EXCEPT ![i] = Append(@, cb.rid)]
       /\ deferQueue' = [deferQueue EXCEPT ![i] = QueueAfter(strat[i], @)]
       /\ idx' = [idx EXCEPT ![i] = IF strat[i] \in DeferStrategies THEN @ + 1 ELSE @]
       /\ warns' = IF cb.kind \in {"throw", "asyncReject"}
                   THEN Append(warns, SyncWarning(strat[i], i, cb, ErrCleanup))
                   ELSE warns
  /\ UNCHANGED <<res, jobs, same, util, parent, stack, pc, strat, onError, isPromise, caught, ret, segs, regs,
                 acted, handlerArgs, tails, unhandled>>

\* one iteration of the loop of executeDefers: the callback is called inside
\* try/catch, a synchronous throw is logged and the loop goes on
DrainStep(i) ==
  /\ pc[i] = "draining"
  /\ Top = i
  /\ MoreDefers(strat[i], deferQueue[i], idx[i])
  /\ LET cb == CurrentCallback(strat[i], deferQueue[i], idx[i]) IN
       /\ order' = [order EXCEPT ![i] = Append(@, cb.rid)]
       /\ deferQueue' = [deferQueue EXCEPT ![i] = QueueAfter(strat[i], @)]
       /\ idx' = [idx EXCEPT ![i] = IF strat[i] \in DeferStrategies THEN @ + 1 ELSE @]
       /\ warns' = IF cb.kind = "throw"
                   THEN Append(warns, SyncWarning(strat[i], i, cb, ErrCleanup))
                   ELSE warns
       /\ tails' = IF cb.kind \in {"asyncOk", "asyncReject"}
                   THEN tails \cup {PendingTail(strat[i], i, cb)}
                   ELSE tails
  /\ UNCHANGED <<res, jobs, same, util, parent, stack, pc, strat, onError, isPromise, caught, ret, segs, regs,
                 acted, handlerArgs, unhandled>>

\* a pending result returned by a cleanup callback settles
TailSettle(t) ==
  /\ t \in tails
  /\ stack = <<>>
  /\ tails' = tails \ {t}
  /\ warns' = IF t.rejects /\ t.caught
              THEN Append(warns, AsyncWarning(t.inv, t.rid, ErrCleanup))
              ELSE warns
  /\ unhandled' = IF t.rejects /\ ~t.caught
                  THEN unhandled \cup {[inv |-> t.inv, rid |-> t.rid]}
                  ELSE unhandled
  /\ UNCHANGED <<res, jobs, same, util, parent, stack, pc, strat, onError, deferQueue, idx, isPromise, caught,
                 ret, segs, regs, acted, order, handlerArgs>>

\* ------------------------------------------------------ surfacing the outcome
\* how a value leaves the engine: returned / raised when the action was
\* synchronous, resolved / rejected through the engine's Promise otherwise
Give(async) == IF async THEN "resolve" ELSE "return"
Fail(async) == IF async THEN "reject" ELSE "raise"

\* success decided by the truthiness of the value instead of by the branch taken
safeTruthy(async, o) ==
  IF o.ok /\ o.v \notin {JsNull, JsUndefined, JsZero, JsFalse}
  THEN [how |-> Give(async), shape |-> "Result", val |-> <<o.v>>, err |-> <<>>]
  ELSE [how |-> Give(async), shape |-> "Result", val |-> <<>>, err |-> <<ensureError(o.v)>>]

\* defer.safe: { val: v } or { err: ensureError(e) }
safe(async, o) ==
  IF o.ok
  THEN [how |-> Give(async), shape |-> "Result", val |-> <<o.v>>, err |-> <<>>]
  ELSE [how |-> Give(async), shape |-> "Result", val |-> <<>>, err |-> <<ensureError(o.v)>>]

\* the caught value is thrown again without ensureError
throwingRaw(async, o) ==
  IF o.ok
  THEN [how |-> Give(async), shape |-> "bare", val |-> <<o.v>>, err |-> <<>>]
  ELSE [how |-> Fail(async), shape |-> "bare", val |-> <<>>, err |-> <<o.v>>]

\* the success branches return nothing, as those of handled do
throwingDiscards(async, o) ==
  IF o.ok
  THEN [how |-> Give(async), shape |-> "bare", val |-> <<JsUndefined>>, err |-> <<>>]
  ELSE [how |-> Fail(async), shape |-> "bare", val |-> <<>>, err |-> <<ensureError(o.v)>>]

\* defer.throwing: v, or throw ensureError(e)
throwing(async, o) ==
  IF o.ok
  THEN [how |-> Give(async), shape |-> "bare", val |-> <<o.v>>, err |-> <<>>]
  ELSE [how |-> Fail(async), shape |-> "bare", val |-> <<>>, err |-> <<ensureError(o.v)>>]

\* what a call of onError leaves behind: nothing when it returns, its own
\* exception when it throws
AfterHandler(async, h) ==
  IF h = "throws"
  THEN [how |-> Fail(async), shape |-> "bare", val |-> <<>>, err |-> <<ErrHandler>>]
  ELSE [how |-> Give(async), shape |-> "bare", val |-> <<JsUndefined>>, err |-> <<>>]

\* the success branches hand the action's value back
handledReturnsValue(async, o, h) ==
  IF o.ok
  THEN [how |-> Give(async), shape |-> "bare", val |-> <<o.v>>, err |-> <<>>]
  ELSE AfterHandler(async, h)

\* defer.handled: nothing, after onError(ensureError(e)) on failure
handled(async, o, h) ==
  IF o.ok
  THEN [how |-> Give(async), shape |-> "bare", val |-> <<JsUndefined>>, err |-> <<>>]
  ELSE AfterHandler(async, h)

\* the failure branches without onError raise the error instead of returning it
withDeferImplRethrow(async, o, h) ==
  IF h # "none"
  THEN IF o.ok
       THEN [how |-> Give(async), shape |-> "bare", val |-> <<JsUndefined>>, err |-> <<>>]
       ELSE AfterHandler(async, h)
  ELSE IF o.ok
       THEN [how |-> Give(async), shape |-> "ValErr", val |-> <<o.v>>, err |-> <<JsNull>>]
       ELSE [how |-> Fail(async), shape |-> "bare", val |-> <<>>,
             err |-> <<handleUnknown(o.v)>>]

\* _withDeferImpl: [val, null] or [null, handleUnknown(e)] without onError,
\* nothing (after onError(handleUnknown(e)) on failure) with onError
withDeferImpl(async, o, h) ==
  IF h # "none"
  THEN IF o.ok
       THEN [how |-> Give(async), shape |-> "bare", val |-> <<JsUndefined>>, err |-> <<>>]
       ELSE AfterHandler(async, h)
  ELSE IF o.ok
       THEN [how |-> Give(async), shape |-> "ValErr", val |-> <<o.v>>, err |-> <<JsNull>>]
       ELSE [how |-> Give(async), shape |-> "ValErr", val |-> <<JsNull>>,
             err |-> <<handleUnknown(o.v)>>]

\* the statements after executeDefers in each branch of each entry point
Surface(s, async, o, h) ==
  CASE s = "safe" -> safe(async, o)
    [] s = "throwing" -> throwing(async, o)
    [] s = "handled" -> handled(async, o, h)
    [] OTHER -> withDeferImpl(async, o, h)

\* the rejection continuation and the catch block return the caught value as it is
tryCatchNoNormalize(async, o) ==
  IF async
  THEN IF o.ok
       THEN [how |-> "resolve", shape |-> "Result", val |-> <<o.v>>, err |-> <<>>]
       ELSE [how |-> "resolve", shape |-> "Result", val |-> <<>>, err |-> <<o.v>>]
  ELSE IF o.ok
       THEN [how |-> "return", shape |-> "Result", val |-> <<o.v>>, err |-> <<>>]
       ELSE [how |-> "return", shape |-> "Result", val |-> <<>>, err |-> <<o.v>>]

\* tryCatch of try-catch.ts: result.then((v) => ({val: v}), (e) => ({err:
\* ensureError(e)})) for a Promise, {val: result} otherwise, {err:
\* ensureError(e)} from the catch block
tryCatch(async, o) ==
  IF async
  THEN IF o.ok
       THEN [how |-> "resolve", shape |-> "Result", val |-> <<o.v>>, err |-> <<>>]
       ELSE [how |-> "resolve", shape |-> "Result", val |-> <<>>,
             err |-> <<ensureError(o.v)>>]
  ELSE IF o.ok
       THEN [how |-> "return", shape |-> "Result", val |-> <<o.v>>, err |-> <<>>]
       ELSE [how |-> "return", shape |-> "Result", val |-> <<>>,
             err |-> <<ensureError(o.v)>>]

\* handled passes the caught value to onError as it is
HandlerCallRaw(s, o) ==
  IF o.ok \/ s \notin HandledStrategies THEN <<>>
  ELSE IF s = "handled" THEN <<o.v>> ELSE <<handleUnknown(o.v)>>

\* onError is called in the success continuation too
HandlerCallAlways(s, o) ==
  IF s \notin HandledStrategies THEN <<>>
  ELSE IF s = "handled" THEN <<ensureError(o.v)>> ELSE <<handleUnknown(o.v)>>

\* the arguments of the onError call made after executeDefers, if any
HandlerCall(s, o) ==
  IF o.ok \/ s \notin HandledStrategies THEN <<>>
  ELSE IF s = "handled" THEN <<ensureError(o.v)>> ELSE <<handleUnknown(o.v)>>

\* executeDefers has returned on a failure path of handled / _withDeferImpl
NeedsHandler(i) ==
  /\ pc[i] = "draining"
  /\ ~MoreDefers(strat[i], deferQueue[i], idx[i])
  /\ HandlerCall(strat[i], caught[i][1]) # <<>>

\* onError is called before executeDefers
CallHandlerBeforeDrain(i) ==
  /\ Top = i
  /\ pc[i] = "draining"
  /\ HandlerCall(strat[i], caught[i][1]) # <<>>
  /\ handlerArgs[i] = <<>>
  /\ handlerArgs' = [handlerArgs EXCEPT ![i] = @ \o HandlerCall(strat[i], caught[i][1])]
  /\ UNCHANGED <<res, jobs, same, util, parent, stack, pc, strat, onError, deferQueue, idx, isPromise, caught, ret,
                 segs, regs, acted, order, warns, tails, unhandled>>

\* onError(ensureError(e)) / onError(handleUnknown(e)) is called
CallHandler(i) ==
  /\ Top = i
  /\ NeedsHandler(i)
  /\ handlerArgs' = [handlerArgs EXCEPT ![i] = @ \o HandlerCall(strat[i], caught[i][1])]
  /\ pc' = [pc EXCEPT ![i] = "handling"]
  /\ UNCHANGED <<res, jobs, same, util, parent, stack, strat, onError, deferQueue, idx, isPromise, caught, ret,
                 segs, regs, acted, order, warns, tails, unhandled>>

\* the engine returns or settles its Promise without waiting for the onError call
FinishSkipsHandler(i) ==
  /\ Top = i
  /\ \/ pc[i] = "handling"
     \/ /\ pc[i] = "draining"
        /\ ~MoreDefers(strat[i], deferQueue[i], idx[i])
  /\ ret' = [ret EXCEPT ![i] = Surface(strat[i], isPromise[i], caught[i][1], onError[i])]
  /\ pc' = [pc EXCEPT ![i] = "settled"]
  /\ stack' = Pop
  /\ UNCHANGED <<res, jobs, same, util, parent, strat, onError, deferQueue, idx, isPromise, caught, segs, regs,
                 acted, order, handlerArgs, warns, tails, unhandled>>

\* the engine awaits what the callbacks returned before it produces its result
FinishAwaitsTails(i) ==
  /\ Top = i
  /\ \A t \in tails : t.inv # i
  /\ \/ pc[i] = "handling"
     \/ /\ pc[i] = "draining"
        /\ ~MoreDefers(strat[i], deferQueue[i], idx[i])
        /\ ~NeedsHandler(i)
  /\ ret' = [ret EXCEPT ![i] = Surface(strat[i], isPromise[i], caught[i][1], onError[i])]
  /\ pc' = [pc EXCEPT ![i] = "settled"]
  /\ stack' = Pop
  /\ UNCHANGED <<res, jobs, same, util, parent, strat, onError, deferQueue, idx, isPromise, caught, segs, regs,
                 acted, order, handlerArgs, warns, tails, unhandled>>

\* executeDefers (and onError, where it is called) has returned: the engine
\* returns, raises, or settles its own Promise
Finish(i) ==
  /\ Top = i
  /\ \/ pc[i] = "handling"
     \/ /\ pc[i] = "draining"
        /\ ~MoreDefers(strat[i], deferQueue[i], idx[i])
        /\ ~NeedsHandler(i)
  /\ ret' = [ret EXCEPT ![i] = Surface(strat[i], isPromise[i], caught[i][1], onError[i])]
  /\ pc' = [pc EXCEPT ![i] = "settled"]
  /\ stack' = Pop
  /\ UNCHANGED <<res, jobs, same, util, parent, strat, onError, deferQueue, idx, isPromise, caught, segs, regs,
                 acted, order, handlerArgs, warns, tails, unhandled>>

Next ==
  \/ \E i \in Invs, s \in Strategies, h \in HandlerKinds \cup {"none"} : Invoke(i, s, h)
  \/ \E i \in Invs, k \in CallbackKinds : defer(i, k)
  \/ \E i \in Invs, v \in ReturnValues : ActionReturn(i, v)
  \/ \E i \in Invs, e \in ThrownValues : ActionThrow(i, e)
  \/ \E i \in Invs : ActionReturnsPromise(i)
  \/ \E i \in Invs : ActionResume(i)
  \/ \E i \in Invs : ActionAwait(i)
  \/ \E i \in Invs, v \in ReturnValues : ActionSettle(i, [ok |-> TRUE, v |-> v])
  \/ \E i \in Invs, e \in ThrownValues : ActionSettle(i, [ok |-> FALSE, v |-> e])
  \/ \E i \in Invs, v \in ReturnValues : ActionPromiseSettle(i, [ok |-> TRUE, v |-> v])
  \/ \E i \in Invs, e \in ThrownValues : ActionPromiseSettle(i, [ok |-> FALSE, v |-> e])
  \/ \E i \in Invs : Continuation(i)
  \/ \E i \in Invs : DrainStep(i)
  \/ \E i \in Invs : CallHandler(i)
  \/ \E i \in Invs : Finish(i)
  \/ \E t \in tails : TailSettle(t)

Spec == Init /\ [][Next]_vars

\* the values the action produces in the runs checked for progress
FairReturnValues == {JsUndefined}
FairThrownValues == {ErrBoom, JsNull}

FairNext ==
  \/ \E i \in Invs, s \in Strategies, h \in HandlerKinds \cup {"none"} : Invoke(i, s, h)
  \/ \E i \in Invs, k \in CallbackKinds : Len(regs[i]) < MaxFairDefer /\ defer(i, k)
  \/ \E i \in Invs, v \in FairReturnValues : ActionReturn(i, v)
  \/ \E i \in Invs, e \in FairThrownValues : ActionThrow(i, e)
  \/ \E i \in Invs : ActionReturnsPromise(i)
  \/ \E i \in Invs : ActionResume(i)
  \/ \E i \in Invs : ActionAwait(i)
  \/ \E i \in Invs, v \in FairReturnValues : ActionSettle(i, [ok |-> TRUE, v |-> v])
  \/ \E i \in Invs, e \in FairThrownValues : ActionSettle(i, [ok |-> FALSE, v |-> e])
  \/ \E i \in Invs, v \in FairReturnValues : ActionPromiseSettle(i, [ok |-> TRUE, v |-> v])
  \/ \E i \in Invs, e \in FairThrownValues : ActionPromiseSettle(i, [ok |-> FALSE, v |-> e])
  \/ \E i \in Invs : Continuation(i)
  \/ \E i \in Invs : DrainStep(i)
  \/ \E i \in Invs : CallHandler(i)
  \/ \E i \in Invs : Finish(i)
  \/ \E t \in tails : TailSettle(t)

\* synchronous code runs to its end and the microtask queue is always emptied:
\* once the action has settled, the continuation, the loop of executeDefers,
\* the onError call and the return are taken. Nothing makes the action's
\* Promise or a callback's Promise settle.
FairSpec ==
  /\ Init
  /\ [][FairNext]_vars
  /\ \A i \in Invs :
       /\ WF_vars(Continuation(i))
       /\ WF_vars(DrainStep(i))
       /\ WF_vars(CallHandler(i))
       /\ WF_vars(Finish(i))

\* ------------------------------------- the handle used outside the action
\* callbacks whose body calls the handle: "registers" registers one more
\* callback, "again" registers itself
HandleKinds == {"registers", "again"}
HandleCallbackKinds == {"ok", "throw"} \cup HandleKinds
HandleReturnValues == {JsUndefined}
HandleThrownValues == {JsNull}

\* the callback the loop is about to call does not use the handle
PlainCallback(i) ==
  /\ MoreDefers(strat[i], deferQueue[i], idx[i])
  /\ CurrentCallback(strat[i], deferQueue[i], idx[i]).kind \in CallbackKinds

\* the index loop reads queue.length once, before the first iteration: what
\* is pushed during the drain is called by the shifting loop only
CallbackRegistersLengthOnce(i) ==
  /\ pc[i] = "draining"
  /\ Top = i
  /\ MoreDefers(strat[i], deferQueue[i], idx[i])
  /\ LET cb == CurrentCallback(strat[i], deferQueue[i], idx[i])
         fn == IF cb.kind = "again" THEN cb
               ELSE [rid |-> Len(regs[i]) + 1, kind |-> "ok"]
     IN
       /\ cb.kind \in HandleKinds
       /\ order' = [order EXCEPT ![i] = Append(@, cb.rid)]
       /\ deferQueue' = [deferQueue EXCEPT ![i] =
            IF strat[i] \in DeferStrategies THEN @ ELSE Append(QueueAfter(strat[i], @), fn)]
       /\ idx' = [idx EXCEPT ![i] = IF strat[i] \in DeferStrategies THEN @ + 1 ELSE @]
       /\ regs' = [regs EXCEPT ![i] =
            IF cb.kind = "again" THEN @ ELSE Append(@, [kind |-> "ok", at |-> "draining"])]
  /\ pc' = [pc EXCEPT ![i] = "incallback"]
  /\ UNCHANGED <<res, jobs, same, util, parent, stack, strat, onError, isPromise, caught, ret,
                 segs, acted, handlerArgs, warns, tails, unhandled>>

\* the loop walks a copy of the queue made when the drain started: what is
\* pushed during the drain is not in it
CallbackRegistersSnapshot(i) ==
  /\ pc[i] = "draining"
  /\ Top = i
  /\ MoreDefers(strat[i], deferQueue[i], idx[i])
  /\ LET cb == CurrentCallback(strat[i], deferQueue[i], idx[i]) IN
       /\ cb.kind \in HandleKinds
       /\ order' = [order EXCEPT ![i] =
            IF /\ cb.kind = "again"
               /\ Cardinality({n \in 1..Len(@) : @[n] = cb.rid}) >= MaxAgain
            THEN @
            ELSE Append(@, cb.rid)]
       /\ deferQueue' = [deferQueue EXCEPT ![i] = QueueAfter(strat[i], @)]
       /\ idx' = [idx EXCEPT ![i] = IF strat[i] \in DeferStrategies THEN @ + 1 ELSE @]
       /\ regs' = [regs EXCEPT ![i] =
            IF cb.kind = "again" THEN @ ELSE Append(@, [kind |-> "ok", at |-> "draining"])]
  /\ pc' = [pc EXCEPT ![i] = "incallback"]
  /\ UNCHANGED <<res, jobs, same, util, parent, stack, strat, onError, isPromise, caught, ret, segs,
                 acted, handlerArgs, warns, tails, unhandled>>

\* the loop of executeDefers calls a callback whose body calls the handle:
\* up to that call of the handle. The push lands in the queue the loop is
\* walking (queue.length is read again, deferQueue.length > 0 is tested again)
CallbackRegisters(i) ==
  /\ pc[i] = "draining"
  /\ Top = i
  /\ MoreDefers(strat[i], deferQueue[i], idx[i])
  /\ LET cb == CurrentCallback(strat[i], deferQueue[i], idx[i])
         fn == IF cb.kind = "again" THEN cb
               ELSE [rid |-> Len(regs[i]) + 1, kind |-> "ok"]
     IN
       /\ cb.kind \in HandleKinds
       /\ order' = [order EXCEPT ![i] =
            IF /\ cb.kind = "again"
               /\ Cardinality({n \in 1..Len(@) : @[n] = cb.rid}) >= MaxAgain
            THEN @
            ELSE Append(@, cb.rid)]
       /\ deferQueue' = [deferQueue EXCEPT ![i] = Append(QueueAfter(strat[i], @), fn)]
       /\ idx' = [idx EXCEPT ![i] = IF strat[i] \in DeferStrategies THEN @ + 1 ELSE @]
       /\ regs' = [regs EXCEPT ![i] =
            IF cb.kind = "again" THEN @ ELSE Append(@, [kind |-> "ok", at |-> "draining"])]
  /\ pc' = [pc EXCEPT ![i] = "incallback"]
  /\ UNCHANGED <<res, jobs, same, util, parent, stack, strat, onError, isPromise, caught, ret, segs,
                 acted, handlerArgs, warns, tails, unhandled>>

\* the body of that callback returns to the loop
CallbackReturns(i) ==
  /\ pc[i] = "incallback"
  /\ Top = i
  /\ pc' = [pc EXCEPT ![i] = "draining"]
  /\ UNCHANGED <<res, jobs, same, util, parent, stack, strat, onError, deferQueue, idx, isPromise, caught,
                 ret, segs, regs, acted, order, handlerArgs, warns, tails, unhandled>>

\* the handle is closed once the action's Promise has settled
deferQueuedClosed(i, k) ==
  /\ pc[i] = "queued"
  /\ stack = <<>>
  /\ Len(regs[i]) < MaxDefer
  /\ regs' = [regs EXCEPT ![i] = Append(@, [kind |-> k, at |-> "queued"])]
  /\ UNCHANGED <<res, jobs, same, util, parent, stack, pc, strat, onError, deferQueue, idx, isPromise,
                 caught, ret, segs, acted, order, handlerArgs, warns, tails, unhandled>>

\* the handle is called after the action's Promise has settled and before
\* the continuation given to res.then has run (by another reaction of that
\* Promise, queued earlier): deferQueue.push(fn)
deferQueued(i, k) ==
  /\ pc[i] = "queued"
  /\ stack = <<>>
  /\ Len(regs[i]) < MaxDefer
  /\ deferQueue' = [deferQueue EXCEPT ![i] = Append(@, [rid |-> Len(regs[i]) + 1, kind |-> k])]
  /\ regs' = [regs EXCEPT ![i] = Append(@, [kind |-> k, at |-> "queued"])]
  /\ UNCHANGED <<res, jobs, same, util, parent, stack, pc, strat, onError, idx, isPromise, caught, ret,
                 segs, acted, order, handlerArgs, warns, tails, unhandled>>

\* the handle calls the callback at once when the queue has been drained
deferLateRunsNow(i, k) ==
  /\ pc[i] = "settled"
  /\ stack = <<>>
  /\ Len(regs[i]) < MaxDefer
  /\ regs' = [regs EXCEPT ![i] = Append(@, [kind |-> k, at |-> "settled"])]
  /\ order' = [order EXCEPT ![i] = Append(@, Len(regs[i]) + 1)]
  /\ UNCHANGED <<res, jobs, same, util, parent, stack, pc, strat, onError, deferQueue, idx, isPromise,
                 caught, ret, segs, acted, handlerArgs, warns, tails, unhandled>>

\* the handle is called after the engine has produced its result (the caller
\* kept it, or the tail of a callback uses it): deferQueue.push(fn), and no
\* loop is left to read the queue
deferLate(i, k) ==
  /\ pc[i] = "settled"
  /\ stack = <<>>
  /\ Len(regs[i]) < MaxDefer
  /\ deferQueue' = [deferQueue EXCEPT ![i] = Append(@, [rid |-> Len(regs[i]) + 1, kind |-> k])]
  /\ regs' = [regs EXCEPT ![i] = Append(@, [kind |-> k, at |-> "settled"])]
  /\ UNCHANGED <<res, jobs, same, util, parent, stack, pc, strat, onError, idx, isPromise, caught, ret,
                 segs, acted, order, handlerArgs, warns, tails, unhandled>>

\* a callback that registers itself again is given to the shifting loop of
\* with-defer.ts only: the queue of defer.ts, never shortened, would grow
\* without bound
NextHandle ==
  \/ \E i \in Invs, s \in Strategies, h \in {"returns", "none"} : Invoke(i, s, h)
  \/ \E i \in Invs, k \in HandleCallbackKinds :
       /\ Len(regs[i]) < MaxHandleDefer
       /\ k = "again" => strat[i] \in WithDeferStrategies
       /\ defer(i, k)
  \/ \E i \in Invs, v \in HandleReturnValues : ActionReturn(i, v)
  \/ \E i \in Invs, e \in HandleThrownValues : ActionThrow(i, e)
  \/ \E i \in Invs : ActionReturnsPromise(i)
  \/ \E i \in Invs, v \in HandleReturnValues : ActionPromiseSettle(i, [ok |-> TRUE, v |-> v])
  \/ \E i \in Invs, e \in HandleThrownValues : ActionPromiseSettle(i, [ok |-> FALSE, v |-> e])
  \/ \E i \in Invs : Continuation(i)
  \/ \E i \in Invs : PlainCallback(i) /\ DrainStep(i)
  \/ \E i \in Invs : CallbackRegisters(i)
  \/ \E i \in Invs : CallbackReturns(i)
  \/ \E i \in Invs : CallHandler(i)
  \/ \E i \in Invs : Finish(i)
  \/ \E i \in Invs, k \in {"ok", "throw"} : Len(regs[i]) <= MaxHandleDefer /\ deferQueued(i, k)
  \/ \E i \in Invs, k \in {"ok", "throw"} : Len(regs[i]) <= MaxHandleDefer /\ deferLate(i, k)

\* what the engine does by itself is done; the action's Promise may stay
\* pending, and nobody has to use the handle after the result
SpecHandle ==
  /\ Init
  /\ [][NextHandle]_vars
  /\ \A i \in Invs :
       /\ WF_vars(Continuation(i))
       /\ WF_vars(PlainCallback(i) /\ DrainStep(i))
       /\ WF_vars(CallbackRegisters(i))
       /\ WF_vars(CallbackReturns(i))
       /\ WF_vars(CallHandler(i))
       /\ WF_vars(Finish(i))

\* ------------------------------------- one function passed more than once
SameCallbackKinds == {"ok", "throw"}
SameReturnValues == {JsUndefined}
SameThrownValues == {JsNull}

\* the function passed at registration r, named by the registration that
\* passed it first
Fn(i, r) ==
  IF \E p \in same[i] : p[1] = r
  THEN (CHOOSE p \in same[i] : p[1] = r)[2]
  ELSE r

\* the handle leaves out a function the queue already holds
deferSameDedup(i, r) ==
  /\ pc[i] \in {"running", "resumed"}
  /\ Top = i
  /\ r \in 1..Len(regs[i])
  /\ Len(regs[i]) < MaxDefer
  /\ deferQueue' = [deferQueue EXCEPT ![i] =
       IF \E n \in 1..Len(@) : Fn(i, @[n].rid) = Fn(i, r)
       THEN @
       ELSE Append(@, [rid |-> Len(regs[i]) + 1, kind |-> regs[i][r].kind])]
  /\ regs' = [regs EXCEPT ![i] = Append(@, [kind |-> regs[i][r].kind, at |-> pc[i]])]
  /\ same' = [same EXCEPT ![i] = @ \cup {<<Len(regs[i]) + 1, Fn(i, r)>>}]
  /\ UNCHANGED <<res, jobs, util, parent, stack, pc, strat, onError, idx, isPromise, caught, ret, segs,
                 acted, order, handlerArgs, warns, tails, unhandled>>

\* the action passes to the handle the function it passed at registration r:
\* deferQueue.push(fn) again, nothing is looked up in the queue
deferSame(i, r) ==
  /\ pc[i] \in {"running", "resumed"}
  /\ Top = i
  /\ r \in 1..Len(regs[i])
  /\ Len(regs[i]) < MaxDefer
  /\ deferQueue' = [deferQueue EXCEPT ![i] =
       Append(@, [rid |-> Len(regs[i]) + 1, kind |-> regs[i][r].kind])]
  /\ regs' = [regs EXCEPT ![i] = Append(@, [kind |-> regs[i][r].kind, at |-> pc[i]])]
  /\ same' = [same EXCEPT ![i] = @ \cup {<<Len(regs[i]) + 1, Fn(i, r)>>}]
  /\ UNCHANGED <<res, jobs, util, parent, stack, pc, strat, onError, idx, isPromise, caught, ret, segs,
                 acted, order, handlerArgs, warns, tails, unhandled>>

NextSame ==
  \/ \E i \in Invs, s \in Strategies, h \in {"returns", "none"} : Invoke(i, s, h)
  \/ \E i \in Invs, k \in SameCallbackKinds : Len(regs[i]) < MaxSameDefer /\ defer(i, k)
  \/ \E i \in Invs, r \in 1..MaxSameDefer : Len(regs[i]) < MaxSameDefer /\ deferSame(i, r)
  \/ \E i \in Invs, v \in SameReturnValues : ActionReturn(i, v)
  \/ \E i \in Invs, e \in SameThrownValues : ActionThrow(i, e)
  \/ \E i \in Invs : ActionReturnsPromise(i)
  \/ \E i \in Invs : ActionResume(i)
  \/ \E i \in Invs : ActionAwait(i)
  \/ \E i \in Invs, v \in SameReturnValues : ActionSettle(i, [ok |-> TRUE, v |-> v])
  \/ \E i \in Invs, e \in SameThrownValues : ActionSettle(i, [ok |-> FALSE, v |-> e])
  \/ \E i \in Invs, v \in SameReturnValues : ActionPromiseSettle(i, [ok |-> TRUE, v |-> v])
  \/ \E i \in Invs, e \in SameThrownValues : ActionPromiseSettle(i, [ok |-> FALSE, v |-> e])
  \/ \E i \in Invs : Continuation(i)
  \/ \E i \in Invs : DrainStep(i)
  \/ \E i \in Invs : CallHandler(i)
  \/ \E i \in Invs : Finish(i)

SpecSame == Init /\ [][NextSame]_vars

\* ------------------------------------------------ res instanceof Promise
\* a native Promise, and an object with a then method that calls its
\* argument later: { id: 1, then(resolve) { setTimeout(resolve) } }
JsPromise == [kind |-> "promise", text |-> "[object Promise]", json |-> "{}", cause |-> <<>>]
JsThenable ==
  [kind |-> "object", text |-> "[object Object]", json |-> "{\"id\":1}", cause |-> <<>>]
ThenableReturnValues == {JsZero, JsThenable, JsPromise}
ThenableSettleValues == {JsZero}
ThenableThrownValues == {JsNull}

\* typeof res?.then === "function"
InstanceofPromiseOrThenable(v) == v.kind = "promise" \/ v = JsThenable

\* res instanceof Promise
InstanceofPromise(v) == v.kind = "promise"

\* const res = action(...); if (res instanceof Promise) {...} else {...}
ActionReturns(i, v) ==
  /\ pc[i] = "running"
  /\ Top = i
  /\ res' = [res EXCEPT ![i] = <<v>>]
  /\ IF InstanceofPromise(v)
     THEN /\ pc' = [pc EXCEPT ![i] = "suspended"]
          /\ isPromise' = [isPromise EXCEPT ![i] = TRUE]
          /\ stack' = Pop
          /\ UNCHANGED <<idx, caught, acted>>
     ELSE /\ pc' = [pc EXCEPT ![i] = "draining"]
          /\ idx' = [idx EXCEPT ![i] = 0]
          /\ caught' = [caught EXCEPT ![i] = <<[ok |-> TRUE, v |-> v]>>]
          /\ acted' = [acted EXCEPT ![i] = <<[ok |-> TRUE, v |-> v]>>]
          /\ UNCHANGED <<stack, isPromise>>
  /\ UNCHANGED <<jobs, same, util, parent, strat, onError, deferQueue, ret, segs, regs,
                 order, handlerArgs, warns, tails, unhandled>>

NextThenable ==
  \/ \E i \in Invs, s \in Strategies, h \in {"returns", "none"} : Invoke(i, s, h)
  \/ \E i \in Invs, k \in {"ok", "throw"} : Len(regs[i]) < MaxThenableDefer /\ defer(i, k)
  \/ \E i \in Invs, v \in ThenableReturnValues : ActionReturns(i, v)
  \/ \E i \in Invs, e \in ThenableThrownValues : ActionThrow(i, e)
  \/ \E i \in Invs, v \in ThenableSettleValues :
       ActionPromiseSettle(i, [ok |-> TRUE, v |-> v])
  \/ \E i \in Invs, e \in ThenableThrownValues :
       ActionPromiseSettle(i, [ok |-> FALSE, v |-> e])
  \/ \E i \in Invs : Continuation(i)
  \/ \E i \in Invs : DrainStep(i)
  \/ \E i \in Invs : CallHandler(i)
  \/ \E i \in Invs : Finish(i)

SpecThenable == Init /\ [][NextThenable]_vars

\* ------------------------------------------- ensureError, propagateError
\* an object without a prototype that refers to itself: JSON.stringify(e)
\* and String(e) both raise a TypeError
JsHostile == [kind |-> "object", text |-> "throws", json |-> "throws", cause |-> <<>>]
ErrTypeError ==
  [kind |-> "error", text |-> "Cannot convert object to primitive value", json |-> "",
   cause |-> <<>>]
\* new Error("this is an error", { cause: "some cause" })
ErrWithCause == NewError("this is an error", JsString)

\* String(e): ok = FALSE when it raises
JsToString(e) == [ok |-> e.text # "throws", text |-> e.text]

Returned(v) == [how |-> "return", shape |-> "bare", val |-> <<v>>, err |-> <<>>]
Raised(e) == [how |-> "raise", shape |-> "bare", val |-> <<>>, err |-> <<e>>]

\* a call of ensureError: what it returns, or what it raises. String(e) in
\* the handler of the inner try and in the else branch is not guarded
ensureErrorCall(e) ==
  IF IsError(e) THEN Returned(e)
  ELSE IF e.kind = "null" THEN Returned(NewError("Non-Error object was thrown: null", e))
  ELSE IF e.kind = "object" /\ JsonStringify(e).ok
       THEN Returned(NewError("Non-Error object was thrown: " \o JsonStringify(e).text, e))
  ELSE IF JsToString(e).ok
       THEN Returned(NewError("Non-Error object was thrown: " \o JsToString(e).text, e))
  ELSE Raised(ErrTypeError)

\* the error is thrown again as it was caught
propagateErrorFailureBare(errorContext, async, e) ==
  [how |-> Fail(async), shape |-> "bare", val |-> <<>>, err |-> <<e>>]

\* the catch block and the rejection continuation of propagateError:
\* const err = ensureError(e); throw new Error(errorContext, { cause: err })
propagateErrorFailure(errorContext, async, e) ==
  IF ensureErrorCall(e).how = "raise"
  THEN [how |-> Fail(async), shape |-> "bare", val |-> <<>>, err |-> ensureErrorCall(e).err]
  ELSE [how |-> Fail(async), shape |-> "bare", val |-> <<>>,
        err |-> <<NewError(errorContext, ensureErrorCall(e).val[1])>>]

\* the values handed to ensureError, and the messages given to propagateError
EnsureErrorInputs == ReturnValues \cup ThrownValues \cup {ErrWithCause, ErrTypeError, JsHostile}
ErrorContexts == {"", "Error doing thing", "Failed to get data"}

engineVars == <<stack, pc, strat, onError, deferQueue, idx, isPromise, caught, ret, segs,
                regs, acted, order, handlerArgs, warns, tails, unhandled, parent, same, jobs, res>>

\* ensureError(x) is called
EnsureError(x) ==
  /\ util.pc = "idle"
  /\ util' = [fn |-> "ensureError", context |-> "", async |-> FALSE, arg |-> <<x>>,
              prev |-> <<>>, pc |-> "done", out |-> ensureErrorCall(x)]
  /\ UNCHANGED engineVars

\* ensureError is called on what ensureError returned
EnsureErrorAgain ==
  /\ util.fn = "ensureError"
  /\ util.pc = "done"
  /\ util.prev = <<>>
  /\ util.out.how = "return"
  /\ util' = [util EXCEPT !.arg = util.out.val, !.prev = util.out.val,
                          !.out = ensureErrorCall(util.out.val[1])]
  /\ UNCHANGED engineVars

\* propagateError(errorContext, action) is entered and calls action()
PropagateError(errorContext) ==
  /\ util.pc = "idle"
  /\ util' = [NoCall EXCEPT !.fn = "propagateError", !.context = errorContext,
                            !.pc = "running"]
  /\ UNCHANGED engineVars

\* the action returns a value that is not a Promise: return result
PropagateReturn(v) ==
  /\ util.fn = "propagateError"
  /\ util.pc = "running"
  /\ util' = [util EXCEPT !.arg = <<[ok |-> TRUE, v |-> v]>>, !.pc = "done",
                          !.out = Returned(v)]
  /\ UNCHANGED engineVars

\* the action throws: the catch block
PropagateThrow(e) ==
  /\ util.fn = "propagateError"
  /\ util.pc = "running"
  /\ util' = [util EXCEPT !.arg = <<[ok |-> FALSE, v |-> e]>>, !.pc = "done",
                          !.out = propagateErrorFailure(util.context, FALSE, e)]
  /\ UNCHANGED engineVars

\* the action returns a Promise: return result.then(...)
PropagateReturnsPromise ==
  /\ util.fn = "propagateError"
  /\ util.pc = "running"
  /\ util' = [util EXCEPT !.async = TRUE, !.pc = "pending"]
  /\ UNCHANGED engineVars

\* the action's Promise settles
PropagateSettle(o) ==
  /\ util.fn = "propagateError"
  /\ util.pc = "pending"
  /\ util' = [util EXCEPT !.arg = <<o>>, !.pc = "queued"]
  /\ UNCHANGED engineVars

\* the continuation given to result.then runs
PropagateContinuation ==
  /\ util.fn = "propagateError"
  /\ util.pc = "queued"
  /\ util' = [util EXCEPT !.pc = "done", !.out =
       IF util.arg[1].ok
       THEN [how |-> "resolve", shape |-> "bare", val |-> <<util.arg[1].v>>, err |-> <<>>]
       ELSE propagateErrorFailure(util.context, TRUE, util.arg[1].v)]
  /\ UNCHANGED engineVars

NextUtils ==
  \/ \E x \in EnsureErrorInputs : EnsureError(x)
  \/ EnsureErrorAgain
  \/ \E c \in ErrorContexts : PropagateError(c)
  \/ \E v \in ReturnValues : PropagateReturn(v)
  \/ \E e \in ThrownValues : PropagateThrow(e)
  \/ PropagateReturnsPromise
  \/ \E v \in ReturnValues : PropagateSettle([ok |-> TRUE, v |-> v])
  \/ \E e \in ThrownValues : PropagateSettle([ok |-> FALSE, v |-> e])
  \/ PropagateContinuation

SpecUtils == Init /\ [][NextUtils]_vars

\* ------------------------------------------------- two invocations
\* a second call of an entry point, B, made inside the action of the first,
\* A, or while A is pending; callbacks here return nothing
NestedInvs == {"A", "B"}
NestedReturnValues == {JsZero}
NestedThrownValues == {JsNull}
NestedCallbackKinds == {"ok"}

InitNested ==
  /\ stack = <<>>
  /\ pc = [i \in NestedInvs |-> "idle"]
  /\ strat = [i \in NestedInvs |-> "none"]
  /\ onError = [i \in NestedInvs |-> "none"]
  /\ deferQueue = [i \in NestedInvs |-> <<>>]
  /\ idx = [i \in NestedInvs |-> 0]
  /\ isPromise = [i \in NestedInvs |-> FALSE]
  /\ caught = [i \in NestedInvs |-> <<>>]
  /\ ret = [i \in NestedInvs |-> NoRet]
  /\ segs = [i \in NestedInvs |-> 0]
  /\ regs = [i \in NestedInvs |-> <<>>]
  /\ acted = [i \in NestedInvs |-> <<>>]
  /\ order = [i \in NestedInvs |-> <<>>]
  /\ handlerArgs = [i \in NestedInvs |-> <<>>]
  /\ warns = <<>>
  /\ tails = {}
  /\ unhandled = {}
  /\ parent = [i \in NestedInvs |-> "none"]
  /\ util = NoCall
  /\ same = [i \in NestedInvs |-> {}]
  /\ jobs = <<>>
  /\ res = [i \in NestedInvs |-> <<>>]

\* the action of p calls an entry point: the inner call has its own
\* `const deferQueue = []` and its action runs on top of p's frame
InvokeNested(i, p, s, h) ==
  /\ pc[i] = "idle"
  /\ Top = p
  /\ pc[p] \in {"running", "resumed"}
  /\ (s \in HandledStrategies) <=> (h # "none")
  /\ stack' = Append(stack, i)
  /\ pc' = [pc EXCEPT ![i] = "running"]
  /\ strat' = [strat EXCEPT ![i] = s]
  /\ onError' = [onError EXCEPT ![i] = h]
  /\ deferQueue' = [deferQueue EXCEPT ![i] = <<>>]
  /\ parent' = [parent EXCEPT ![i] = p]
  /\ UNCHANGED <<res, jobs, same, util, idx, isPromise, caught, ret, segs, regs, acted, order,
                 handlerArgs, warns, tails, unhandled>>

\* the frames below the running one
Enclosing == {stack[n] : n \in 1..(Len(stack) - 1)}

\* one queue for all invocations: the callback goes to the queue of the
\* invocation that is running
deferOuterShared(q, k) ==
  /\ q \in Enclosing
  /\ pc[Top] \in {"running", "resumed"}
  /\ Len(regs[q]) < MaxDefer
  /\ deferQueue' = [deferQueue EXCEPT ![Top] = Append(@, [rid |-> Len(regs[q]) + 1, kind |-> k])]
  /\ regs' = [regs EXCEPT ![q] = Append(@, [kind |-> k, at |-> pc[q]])]
  /\ UNCHANGED <<res, jobs, same, util, parent, stack, pc, strat, onError, idx, isPromise, caught, ret, segs,
                 acted, order, handlerArgs, warns, tails, unhandled>>

\* the action of a nested invocation calls the handle of an enclosing one,
\* which it has in scope: the handle pushes to the queue of its own closure
deferOuter(q, k) ==
  /\ q \in Enclosing
  /\ pc[Top] \in {"running", "resumed"}
  /\ Len(regs[q]) < MaxDefer
  /\ deferQueue' = [deferQueue EXCEPT ![q] = Append(@, [rid |-> Len(regs[q]) + 1, kind |-> k])]
  /\ regs' = [regs EXCEPT ![q] = Append(@, [kind |-> k, at |-> pc[q]])]
  /\ UNCHANGED <<res, jobs, same, util, parent, stack, pc, strat, onError, idx, isPromise, caught, ret, segs,
                 acted, order, handlerArgs, warns, tails, unhandled>>

NextNested ==
  \/ \E s \in Strategies, h \in {"returns", "none"} : Invoke("A", s, h)
  \/ \E s \in Strategies, h \in {"returns", "none"} :
       pc["A"] # "idle" /\ Invoke("B", s, h)
  \/ \E s \in Strategies, h \in {"returns", "none"} : InvokeNested("B", "A", s, h)
  \/ \E i \in NestedInvs, k \in NestedCallbackKinds :
       Len(regs[i]) < MaxNestedDefer /\ defer(i, k)
  \/ \E q \in NestedInvs, k \in NestedCallbackKinds :
       Len(regs[q]) < MaxNestedDefer /\ deferOuter(q, k)
  \/ \E i \in NestedInvs, v \in NestedReturnValues : ActionReturn(i, v)
  \/ \E i \in NestedInvs, e \in NestedThrownValues : ActionThrow(i, e)
  \/ \E i \in NestedInvs : ActionReturnsPromise(i)
  \/ \E i \in NestedInvs : ActionResume(i)
  \/ \E i \in NestedInvs : ActionAwait(i)
  \/ \E i \in NestedInvs, v \in NestedReturnValues : ActionSettle(i, [ok |-> TRUE, v |-> v])
  \/ \E i \in NestedInvs, e \in NestedThrownValues : ActionSettle(i, [ok |-> FALSE, v |-> e])
  \/ \E i \in NestedInvs, v \in NestedReturnValues :
       ActionPromiseSettle(i, [ok |-> TRUE, v |-> v])
  \/ \E i \in NestedInvs, e \in NestedThrownValues :
       ActionPromiseSettle(i, [ok |-> FALSE, v |-> e])
  \/ \E i \in NestedInvs : Continuation(i)
  \/ \E i \in NestedInvs : DrainStep(i)
  \/ \E i \in NestedInvs : CallHandler(i)
  \/ \E i \in NestedInvs : Finish(i)

SpecNested == InitNested /\ [][NextNested]_vars

\* ------------------------------------ one action given to two entry points
\* A is given an action; when A has settled, B is given the same action: it
\* makes the same registrations and ends as A's did
PairCallbackKinds == {"ok", "throw", "throwValue", "asyncReject", "registers"}
PairReturnValues == {JsZero}
PairThrownValues == {ErrBoom, JsNull}
\* what a callback of kind throwValue throws: throw "oops"
CleanupThrownValue == JsString

\* the registrations the action of i made itself
ActionRegs(i) == SelectSeq(regs[i], LAMBDA x : x.at \in {"running", "resumed"})

\* the action registers a callback of kind k next
SameRegistration(i, k) ==
  IF i = "A" THEN Len(regs[i]) < MaxPairDefer
  ELSE /\ Len(regs[i]) < Len(ActionRegs("A"))
       /\ k = ActionRegs("A")[Len(regs[i]) + 1].kind

\* the action has made its registrations and leaves its synchronous part:
\* by returning a Promise (async) or not
SameReturn(i, async) ==
  i = "B" => (Len(regs[i]) = Len(ActionRegs("A")) /\ isPromise["A"] = async)

\* the action, or its Promise, ends with o
SameEnd(i, o) == i = "B" => acted["A"] = <<o>>

\* the loop of executeDefers calls a callback that throws a value which is
\* not an Error; the catch block logs and the loop goes on
CallbackThrowsValue(i) ==
  /\ pc[i] = "draining"
  /\ Top = i
  /\ MoreDefers(strat[i], deferQueue[i], idx[i])
  /\ LET cb == CurrentCallback(strat[i], deferQueue[i], idx[i]) IN
       /\ cb.kind = "throwValue"
       /\ order' = [order EXCEPT ![i] = Append(@, cb.rid)]
       /\ deferQueue' = [deferQueue EXCEPT ![i] = QueueAfter(strat[i], @)]
       /\ idx' = [idx EXCEPT ![i] = IF strat[i] \in DeferStrategies THEN @ + 1 ELSE @]
       /\ warns' = Append(warns, SyncWarning(strat[i], i, cb, CleanupThrownValue))
  /\ UNCHANGED <<res, jobs, same, util, parent, stack, pc, strat, onError, isPromise, caught,
                 ret, segs, regs, acted, handlerArgs, tails, unhandled>>

NextPair ==
  \/ \E s \in Strategies, h \in {"returns", "none"} : Invoke("A", s, h)
  \/ \E s \in Strategies, h \in {"returns", "none"} :
       pc["A"] = "settled" /\ Invoke("B", s, h)
  \/ \E i \in NestedInvs, k \in PairCallbackKinds : SameRegistration(i, k) /\ defer(i, k)
  \/ \E i \in NestedInvs, v \in PairReturnValues :
       /\ SameReturn(i, FALSE)
       /\ SameEnd(i, [ok |-> TRUE, v |-> v])
       /\ ActionReturn(i, v)
  \/ \E i \in NestedInvs, e \in PairThrownValues :
       /\ SameReturn(i, FALSE)
       /\ SameEnd(i, [ok |-> FALSE, v |-> e])
       /\ ActionThrow(i, e)
  \/ \E i \in NestedInvs : SameReturn(i, TRUE) /\ ActionReturnsPromise(i)
  \/ \E i \in NestedInvs, v \in PairReturnValues :
       /\ SameEnd(i, [ok |-> TRUE, v |-> v])
       /\ ActionPromiseSettle(i, [ok |-> TRUE, v |-> v])
  \/ \E i \in NestedInvs, e \in PairThrownValues :
       /\ SameEnd(i, [ok |-> FALSE, v |-> e])
       /\ ActionPromiseSettle(i, [ok |-> FALSE, v |-> e])
  \/ \E i \in NestedInvs : Continuation(i)
  \/ \E i \in NestedInvs : PlainCallback(i) /\ DrainStep(i)
  \/ \E i \in NestedInvs : CallbackRegisters(i)
  \/ \E i \in NestedInvs : CallbackReturns(i)
  \/ \E i \in NestedInvs : CallbackThrowsValue(i)
  \/ \E i \in NestedInvs : CallHandler(i)
  \/ \E i \in NestedInvs : Finish(i)

SpecPair == InitNested /\ [][NextPair]_vars

\* ------------------------------------------------------------- properties
\* registration numbers whose callback has been called
Called(i) == {order[i][k] : k \in 1..Len(order[i])}
\* registrations made while the action was executing
InWindow(i) == {r \in 1..Len(regs[i]) : regs[i][r].at \in {"running", "resumed"}}
\* number of calls of the callback of registration r
Times(i, r) == Cardinality({k \in 1..Len(order[i]) : order[i][k] = r})
\* an empty slot of a result: a missing property, or null
EmptySlot == {<<>>, <<JsNull>>}
Drained(i) == pc[i] \in {"handling", "settled"}

\* C1: in every strategy and on every action path, no callback is called
\* before the action has settled, and once the invocation has settled every
\* callback registered during the action has been called.
C1_CleanupAfterAction ==
  \A i \in Invs :
    /\ order[i] # <<>> => acted[i] # <<>>
    /\ pc[i] = "settled" => InWindow(i) \subseteq Called(i)

C1_Witness ==
  \E i \in Invs :
    /\ pc[i] = "settled" /\ strat[i] = "throwing" /\ isPromise[i]
    /\ ~acted[i][1].ok
    /\ Len(regs[i]) >= 2 /\ regs[i][1].at = "running" /\ regs[i][2].at = "resumed"
    /\ Called(i) = {1, 2}

\* C2: callbacks are called in registration order: the registration numbers
\* in call order are strictly increasing, whatever the callbacks' kinds and
\* the action's path.
C2_FifoOrder ==
  \A i \in Invs : \A a, b \in 1..Len(order[i]) :
    a < b => order[i][a] < order[i][b]

C2_Witness ==
  \E i \in Invs :
    /\ pc[i] = "settled" /\ strat[i] = "withDefer"
    /\ ~acted[i][1].ok
    /\ Len(regs[i]) >= 3 /\ regs[i][1].kind = "asyncOk" /\ regs[i][2].kind = "ok"
    /\ SubSeq(order[i], 1, 3) = <<1, 2, 3>>

\* C3: no registration's callback is ever called twice, and once the
\* invocation has settled each callback registered during the action has been
\* called exactly once.
C3_ExactlyOnce ==
  \A i \in Invs : \A r \in 1..Len(regs[i]) :
    /\ Times(i, r) <= 1
    /\ (pc[i] = "settled" /\ r \in InWindow(i)) => Times(i, r) = 1

C3_Witness ==
  \E i \in Invs :
    /\ pc[i] = "settled" /\ strat[i] = "handled" /\ ~isPromise[i]
    /\ Len(regs[i]) >= 2 /\ regs[i][1].kind = "throw"
    /\ Times(i, 1) = 1 /\ Times(i, 2) = 1

\* C4: a callback that throws or returns a rejecting pending result stops no
\* other callback, before or after it, from being called, and the drain hands
\* no exception to the engine: the engine still holds the action's own outcome.
C4_FailingCleanupIsolated ==
  \A i \in Invs :
    /\ pc[i] \in {"draining", "handling", "settled"} => caught[i] = acted[i]
    /\ (Drained(i) /\ \E r \in InWindow(i) : regs[i][r].kind \in {"throw", "asyncReject"})
         => InWindow(i) \subseteq Called(i)

C4_Witness ==
  \E i \in Invs :
    /\ Drained(i)
    /\ Len(regs[i]) >= 3
    /\ regs[i][1].kind = "asyncReject" /\ regs[i][2].kind = "throw" /\ regs[i][3].kind = "ok"
    /\ {1, 2, 3} \subseteq Called(i)

\* C5: the engine's result and the onError call are those the action's own
\* behaviour determines, whatever the callbacks did, and the cleanup error is
\* never in the result, never raised and never given to onError.
C5_OutcomeUnaffected ==
  \A i \in Invs : pc[i] = "settled" =>
    /\ ret[i] = Surface(strat[i], isPromise[i], acted[i][1], onError[i])
    /\ handlerArgs[i] = HandlerCall(strat[i], acted[i][1])
    /\ ret[i].err # <<ErrCleanup>> /\ ret[i].val # <<ErrCleanup>>
    /\ \A k \in 1..Len(handlerArgs[i]) : handlerArgs[i][k] # ErrCleanup

C5_Witness ==
  \E i \in Invs :
    /\ pc[i] = "settled" /\ strat[i] = "safe"
    /\ acted[i] = <<[ok |-> TRUE, v |-> JsZero]>>
    /\ \E r \in Called(i) : regs[i][r].kind = "throw"
    /\ \E r \in Called(i) : regs[i][r].kind = "asyncReject"
    /\ ret[i].val = <<JsZero>>

\* C6: when the engine has returned, raised, settled its own pending result,
\* or called onError, every callback registered during the action has already
\* been called.
C6_DrainBeforeResult ==
  \A i \in Invs :
    (ret[i].how # "none" \/ handlerArgs[i] # <<>>) =>
      /\ InWindow(i) \subseteq Called(i)
      /\ ~MoreDefers(strat[i], deferQueue[i], idx[i])

C6_Witness ==
  \E i \in Invs :
    /\ pc[i] = "handling" /\ strat[i] = "withDeferHandled" /\ isPromise[i]
    /\ Len(handlerArgs[i]) = 1 /\ ret[i].how = "none"
    /\ Len(order[i]) >= 2

C10_HandledNeverRaises ==
  \A i \in Invs : strat[i] \in HandledStrategies =>
    ret[i].how \notin {"raise", "reject"}

C12_ThrowingReturnsValue ==
  \A i \in Invs :
    (strat[i] = "throwing" /\ pc[i] = "settled" /\ acted[i][1].ok) =>
      /\ ret[i].how = (IF isPromise[i] THEN "resolve" ELSE "return")
      /\ ret[i].shape = "bare"
      /\ ret[i].val = <<acted[i][1].v>>
      /\ ret[i].err = <<>>

C12_Witness ==
  \E i \in Invs :
    /\ pc[i] = "settled" /\ strat[i] = "throwing" /\ ~isPromise[i]
    /\ acted[i] = <<[ok |-> TRUE, v |-> JsObject]>>
    /\ ret[i].how = "return" /\ ret[i].val = <<JsObject>>

\* C13: callback-dispatch strategies with an asynchronous action that failed:
\* whenever the engine's pending result has settled, onError has already
\* been called.
C13_HandlerBeforeResolve ==
  \A i \in Invs :
    (strat[i] \in HandledStrategies /\ isPromise[i] /\ ret[i].how # "none"
       /\ ~acted[i][1].ok) => Len(handlerArgs[i]) = 1

C13_Witness ==
  \E i \in Invs :
    /\ pc[i] = "settled" /\ strat[i] = "withDeferHandled" /\ isPromise[i]
    /\ ~acted[i][1].ok
    /\ ret[i].how = "resolve" /\ Len(handlerArgs[i]) = 1

\* the error of the action as a strategy shows it: the error slot, the raised
\* error, or the argument of onError
SurfacedError(i) ==
  IF strat[i] \in HandledStrategies THEN handlerArgs[i] ELSE ret[i].err

WarnsFor(i, r, async) ==
  {k \in 1..Len(warns) : warns[k].inv = i /\ warns[k].rid = r /\ warns[k].async = async}
\* the pending result returned by the callback of registration r has settled
TailSettled(i, r) ==
  /\ r \in Called(i)
  /\ \A t \in tails : ~(t.inv = i /\ t.rid = r)

\* C18: when a cleanup callback returned a pending result that has rejected,
\* a diagnostic tagged as an asynchronous cleanup failure has been emitted
\* for it, and the engine's result is the one the action alone determines.
C18_AsyncCleanupDiagnosed ==
  \A i \in Invs :
    /\ \A r \in 1..Len(regs[i]) :
         (regs[i][r].kind = "asyncReject" /\ TailSettled(i, r))
           => WarnsFor(i, r, TRUE) # {}
    /\ pc[i] = "settled" =>
         ret[i] = Surface(strat[i], isPromise[i], acted[i][1], onError[i])

\* the warning w carries the error e: as an argument, or as the cause of one
Carries(w, e) ==
  \E a \in 1..Len(w.args) : w.args[a] = e \/ w.args[a].cause = <<e>>

\* C19: each callback that threw synchronously has exactly one warning, which
\* carries the error it threw; a callback that did not throw synchronously
\* has no such warning, so an invocation without failing callbacks has none.
C19_OneWarningPerThrow ==
  \A i \in Invs : \A r \in 1..Len(regs[i]) :
    IF r \in Called(i) /\ regs[i][r].kind = "throw"
    THEN /\ Cardinality(WarnsFor(i, r, FALSE)) = 1
         /\ \A k \in WarnsFor(i, r, FALSE) : Carries(warns[k], ErrCleanup)
    ELSE WarnsFor(i, r, FALSE) = {}

C19_Witness ==
  \E i \in Invs :
    /\ pc[i] = "settled" /\ ~acted[i][1].ok
    /\ Len(regs[i]) >= 3
    /\ regs[i][1].kind = "throw" /\ regs[i][2].kind = "ok" /\ regs[i][3].kind = "throw"
    /\ Len(warns) = 2

\* the invocations started inside the action of another one
Nested == {i \in DOMAIN parent : parent[i] # "none"}

\* C14: nesting with synchronous actions, every strategy: as long as the
\* inner invocation has not finished its cleanup and returned, the outer
\* action has not settled and no outer callback has been called, whether the
\* outer callbacks were registered before or after the inner call; so the
\* order is inner action, inner cleanup, rest of outer action, outer cleanup.
C14_NestedSyncOrder ==
  \A i \in Nested :
    (~isPromise[i] /\ pc[i] # "settled") =>
      /\ pc[parent[i]] \in {"running", "resumed"}
      /\ acted[parent[i]] = <<>>
      /\ order[parent[i]] = <<>>

C14_Witness ==
  /\ stack = <<"A", "B">>
  /\ pc["B"] = "draining" /\ order["B"] = <<1>> /\ Len(regs["B"]) = 2
  /\ Len(regs["A"]) >= 1 /\ order["A"] = <<>>
  /\ strat["A"] = "safe" /\ strat["B"] = "withDeferHandled"

\* C15 as stated: for every nested invocation, synchronous or asynchronous,
\* the inner invocation has run to its end before the outer action settles
\* and before the outer drain begins.
C15_InnerCompletesFirst ==
  \A i \in Nested :
    (acted[parent[i]] # <<>> \/ order[parent[i]] # <<>>) => pc[i] = "settled"

\* C15 amended: when the outer action has settled or the outer drain has
\* begun, a nested invocation whose action is synchronous has called all its
\* callbacks and returned or raised; one whose action is asynchronous has
\* returned its pending result and may still be unfinished.
C15_InnerSyncCompletesFirst ==
  \A i \in Nested :
    (acted[parent[i]] # <<>> \/ order[parent[i]] # <<>>) =>
      \/ isPromise[i]
      \/ /\ ~isPromise[i]
         /\ pc[i] = "settled"
         /\ InWindow(i) \subseteq Called(i)
         /\ ret[i].how \in {"return", "raise"}

C15_Witness ==
  /\ parent["B"] = "A" /\ ~isPromise["B"] /\ pc["B"] = "settled"
  /\ ~acted["B"][1].ok /\ order["B"] = <<1, 2>>
  /\ isPromise["A"] /\ pc["A"] = "draining" /\ order["A"] = <<1>>

\* C16: the callbacks an invocation's drain calls are callbacks registered
\* through that invocation's own handle, each at most once and in the order
\* of registration, and none registered while its action ran is left out,
\* whatever a nested or a concurrently pending invocation does.
C16_QueueIsolation ==
  \A i \in DOMAIN pc :
    /\ \A k \in 1..Len(order[i]) : order[i][k] \in 1..Len(regs[i])
    /\ \A k, l \in 1..Len(order[i]) : k < l => order[i][k] < order[i][l]
    /\ \A k \in 1..Len(deferQueue[i]) :
         /\ deferQueue[i][k].rid \in 1..Len(regs[i])
         /\ deferQueue[i][k].kind = regs[i][deferQueue[i][k].rid].kind
    /\ pc[i] = "settled" => InWindow(i) \subseteq Called(i)

C16_Witness ==
  /\ parent["B"] = "A" /\ isPromise["B"] /\ isPromise["A"]
  /\ pc["A"] = "settled" /\ pc["B"] = "settled"
  /\ order["A"] = <<1, 2>> /\ order["B"] = <<1, 2>>

\* C20: the engine's result is never produced before the action has
\* settled, and once the action has settled the result is eventually
\* produced, also in runs in which a pending result returned by a cleanup
\* callback never settles.
C20_ResultFollowsAction ==
  /\ [](\A i \in Invs : ret[i].how # "none" => acted[i] # <<>>)
  /\ \A i \in Invs : (acted[i] # <<>>) ~> (ret[i].how # "none")

C20_Witness ==
  \E i \in Invs :
    /\ pc[i] = "settled" /\ ret[i].how = "resolve"
    /\ \E t \in tails : t.inv = i

\* C21: for an action that registers no callbacks, what defer.safe produces is
\* what tryCatch produces for the same action: {val: v} with the same value,
\* {err} with the same normalized error, handed back through a Promise
\* exactly when the action returned a Promise, and not before that settles.
C21_SafeIsTryCatch ==
  \A i \in Invs :
    (strat[i] = "safe" /\ regs[i] = <<>>) =>
      /\ pc[i] = "settled" =>
           /\ ret[i] = tryCatch(isPromise[i], acted[i][1])
           /\ ret[i].how = "resolve" <=> isPromise[i]
      /\ acted[i] = <<>> => ret[i].how = "none"

C21_Witness ==
  \E i \in Invs :
    /\ pc[i] = "settled" /\ strat[i] = "safe" /\ regs[i] = <<>> /\ isPromise[i]
    /\ acted[i] = <<[ok |-> FALSE, v |-> JsString]>>
    /\ ret[i].how = "resolve" /\ IsError(ret[i].err[1])

\* C24: callback-dispatch strategies, success: whatever the action returned
\* or resolved with, the engine returns undefined, or a Promise of undefined,
\* and onError is not called; the action's value goes nowhere.
C24_HandledDiscardsValue ==
  \A i \in Invs :
    (strat[i] \in HandledStrategies /\ pc[i] = "settled" /\ acted[i][1].ok) =>
      /\ ret[i].how = (IF isPromise[i] THEN "resolve" ELSE "return")
      /\ ret[i].val = <<JsUndefined>>
      /\ ret[i].err = <<>>
      /\ handlerArgs[i] = <<>>

C24_Witness ==
  \E i \in Invs :
    /\ pc[i] = "settled" /\ strat[i] = "handled" /\ isPromise[i]
    /\ acted[i] = <<[ok |-> TRUE, v |-> JsObject]>>
    /\ ret[i].val = <<JsUndefined>>

\* C25: an action that returns a Promise from code that ran in one go (a
\* plain function, no await) is treated as asynchronous: after it returned
\* and until that Promise settles no callback is called and the engine has
\* only a pending result; the result the engine settles with is a Promise's.
C25_PendingDecidedByValue ==
  \A i \in Invs :
    (isPromise[i] /\ segs[i] = 0) =>
      /\ acted[i] = <<>> =>
           /\ pc[i] = "suspended"
           /\ order[i] = <<>>
           /\ Len(deferQueue[i]) = Len(regs[i])
           /\ ret[i].how = "none"
      /\ ret[i].how \in {"none", "resolve", "reject"}

C25_Witness ==
  \E i \in Invs :
    /\ isPromise[i] /\ segs[i] = 0 /\ pc[i] = "settled"
    /\ ret[i].how = "resolve" /\ order[i] = <<1, 2>>

\* C26: the drain does not wait for a callback that returned a Promise: as
\* long as the drain runs it is not interrupted and no Promise a callback
\* returned has settled; when one has settled, every callback has been called.
C26_DrainNeverWaits ==
  \A i \in Invs :
    /\ pc[i] = "draining" => Top = i
    /\ \A r \in Called(i) :
         (regs[i][r].kind \in {"asyncOk", "asyncReject"} /\ TailSettled(i, r))
           => /\ Drained(i)
              /\ InWindow(i) \subseteq Called(i)

C26_Witness ==
  \E i \in Invs :
    /\ pc[i] = "draining" /\ Len(regs[i]) = 3
    /\ regs[i][1].kind = "asyncOk" /\ regs[i][2].kind = "asyncReject"
    /\ order[i] = <<1, 2, 3>>
    /\ Cardinality(tails) = 2

\* C27: as long as the Promise the action returned has not settled, the
\* engine's Promise has not settled, no callback has been called and onError
\* has not been called; a Promise that never settles leaves it so for ever.
C27_NeverSettlingAction ==
  \A i \in Invs :
    (isPromise[i] /\ acted[i] = <<>>) =>
      /\ pc[i] \in {"suspended", "resumed"}
      /\ ret[i].how = "none"
      /\ order[i] = <<>>
      /\ handlerArgs[i] = <<>>
      /\ warns = <<>> /\ tails = {}

C27_Witness ==
  \E i \in Invs :
    /\ isPromise[i] /\ acted[i] = <<>>
    /\ pc[i] = "suspended" /\ segs[i] = MaxSegments
    /\ Len(deferQueue[i]) = MaxDefer /\ order[i] = <<>>

\* the states of the state machine: Idle, Running, Draining, the onError
\* call, Settled
Rank(p) ==
  CASE p = "idle" -> 0
    [] p \in {"running", "suspended", "resumed", "queued"} -> 1
    [] p = "draining" -> 2
    [] p = "handling" -> 3
    [] p = "settled" -> 4

\* C29: an invocation goes from Idle to Running, from Running to Draining,
\* from Draining to Settled (by way of the onError call where there is one),
\* never back; so the drain is entered once, after Running and before
\* Settled, and a settled invocation has one outcome and one result, which
\* do not change.
C29_StateMachineOrder ==
  [][\A i \in Invs :
       /\ Rank(pc'[i]) \in {Rank(pc[i]), Rank(pc[i]) + 1}
            \/ (pc[i] = "draining" /\ pc'[i] = "settled")
       /\ pc[i] = "settled" => (ret'[i] = ret[i] /\ acted'[i] = acted[i])
       /\ pc'[i] = "settled" =>
            /\ Len(acted'[i]) = 1
            /\ ret'[i].how # "none"
            /\ (ret'[i].val = <<>>) # (ret'[i].err = <<>>) \/ ret'[i].shape = "ValErr"
            /\ ret'[i].shape = "ValErr" =>
                 (ret'[i].val = <<JsNull>> /\ ~acted'[i][1].ok)
                   \/ (ret'[i].err = <<JsNull>> /\ acted'[i][1].ok)
     ]_vars

C29_Witness ==
  \E i \in Invs :
    /\ pc[i] = "settled" /\ strat[i] = "withDefer" /\ ~acted[i][1].ok
    /\ ret[i].val = <<JsNull>> /\ order[i] = <<1>>

C23_EnsureErrorTotalIdempotent ==
  (util.fn = "ensureError" /\ util.pc = "done") =>
    /\ util.out.how = "return"
    /\ IsError(util.out.val[1])
    /\ IsError(util.arg[1]) => util.out.val = util.arg
    /\ ~IsError(util.arg[1]) => util.out.val[1].cause = util.arg
    /\ util.prev # <<>> => util.out.val = util.prev

\* C28 as stated: once the action has settled the invocation eventually
\* reaches Settled, whatever use the callbacks make of the handle.
C28_DrainTerminates ==
  \A i \in Invs : (acted[i] # <<>>) ~> (pc[i] = "settled")

\* the callbacks registered so far register at most one callback each
FinitelyRegistering(i) ==
  \A r \in 1..Len(regs[i]) : regs[i][r].kind # "again"

\* C28 amended: once the action has settled and no callback registers a
\* callback again every time it is called, the drain ends and the
\* invocation eventually reaches Settled, also when callbacks register
\* further callbacks during the drain.
C28_DrainTerminatesWhenFinite ==
  \A i \in Invs :
    (acted[i] # <<>> /\ FinitelyRegistering(i)) ~> (pc[i] = "settled")

C28_Witness ==
  \E i \in Invs :
    /\ pc[i] = "settled" /\ strat[i] = "safe"
    /\ Len(regs[i]) = 3
    /\ regs[i][1].kind = "registers" /\ regs[i][2].kind = "throw"
    /\ regs[i][3].at = "draining"
    /\ order[i] = <<1, 2, 3>>

\* C30: a callback registered after the engine has produced its result is
\* never called, and from then on the result, the calls made, the onError
\* calls and the warnings stay as they are.
C30_LateRegistrationIgnored ==
  /\ [](\A i \in Invs : \A r \in 1..Len(regs[i]) :
          regs[i][r].at = "settled" => r \notin Called(i))
  /\ [][\A i \in Invs : pc[i] = "settled" =>
          /\ ret'[i] = ret[i]
          /\ order'[i] = order[i]
          /\ handlerArgs'[i] = handlerArgs[i]
          /\ warns' = warns
          /\ pc'[i] = "settled"]_vars

C30_Witness ==
  \E i \in Invs :
    /\ pc[i] = "settled" /\ Len(regs[i]) = 2
    /\ regs[i][1].kind = "throw" /\ regs[i][1].at = "running"
    /\ regs[i][2].at = "settled"
    /\ order[i] = <<1>> /\ Len(warns) = 1
    /\ Len(deferQueue[i]) >= 1

\* the registrations that passed function f, and the calls made of f
RegistrationsOf(i, f) == {r \in 1..Len(regs[i]) : Fn(i, r) = f}
CallsOf(i, f) == {k \in 1..Len(order[i]) : Fn(i, order[i][k]) = f}

\* C31: the handle only appends: until the drain starts the queue holds one
\* entry per registration, in registration order, also for a function passed
\* before; the k-th call of the drain is the call for the k-th registration;
\* and when the invocation has settled a function passed n times has been
\* called n times.
C31_NoDeduplication ==
  \A i \in Invs :
    /\ pc[i] \in {"running", "suspended", "resumed", "queued"} =>
         deferQueue[i] = [r \in 1..Len(regs[i]) |-> [rid |-> r, kind |-> regs[i][r].kind]]
    /\ \A k \in 1..Len(order[i]) : order[i][k] = k
    /\ pc[i] = "settled" =>
         \A f \in 1..Len(regs[i]) :
           Cardinality(CallsOf(i, f)) = Cardinality(RegistrationsOf(i, f))

C31_Witness ==
  \E i \in Invs :
    /\ pc[i] = "settled" /\ Len(regs[i]) = 3
    /\ regs[i][1].kind = "throw"
    /\ Fn(i, 2) = 2 /\ Fn(i, 3) = 1
    /\ order[i] = <<1, 2, 3>>
    /\ Cardinality(CallsOf(i, 1)) = 2 /\ Len(warns) = 2

\* the callback of registration r has been called once, and every callback
\* registered before it, but for those that register themselves again, was
\* called before it
CalledInTurn(i, r) ==
  /\ Times(i, r) = 1
  /\ \A k \in 1..Len(order[i]) : order[i][k] = r =>
       \A q \in 1..(r - 1) :
         regs[i][q].kind # "again" => \E j \in 1..(k - 1) : order[i][j] = q
\* registration numbers there can be
Rids == 1..(2 * MaxHandleDefer + 2)

\* C36: a callback registered by a cleanup callback while the drain runs is
\* called in that drain: never twice, after every callback registered before
\* it, before the engine produces its result, and the drain does get to it.
C36_RegisteredDuringDrainIsCalled ==
  /\ [](\A i \in Invs : \A r \in 1..Len(regs[i]) :
          regs[i][r].at = "draining" =>
            /\ Times(i, r) <= 1
            /\ r \in Called(i) => (CalledInTurn(i, r) /\ acted[i] # <<>>)
            /\ ret[i].how # "none" => r \in Called(i))
  /\ \A i \in Invs : \A r \in Rids :
       (Len(regs[i]) >= r /\ regs[i][r].at = "draining") ~> (r \in Called(i))

C36_Witness ==
  \E i \in Invs :
    /\ pc[i] = "settled" /\ strat[i] = "withDefer" /\ ~isPromise[i]
    /\ Len(regs[i]) = 4
    /\ regs[i][1].kind = "registers" /\ regs[i][2].kind = "registers"
    /\ regs[i][3].at = "draining" /\ regs[i][4].at = "draining"
    /\ order[i] = <<1, 2, 3, 4>>

\* C37: a callback registered after the action's Promise has settled and
\* before the drain has started is called by the drain: once, after the
\* callbacks registered before it, before the engine settles its own
\* Promise, and the drain does get to it.
C37_WindowClosesAtDrain ==
  /\ [](\A i \in Invs : \A r \in 1..Len(regs[i]) :
          regs[i][r].at = "queued" =>
            /\ isPromise[i]
            /\ Times(i, r) <= 1
            /\ r \in Called(i) => CalledInTurn(i, r)
            /\ ret[i].how # "none" => r \in Called(i))
  /\ \A i \in Invs : \A r \in Rids :
       (Len(regs[i]) >= r /\ regs[i][r].at = "queued") ~> (r \in Called(i))

C37_Witness ==
  \E i \in Invs :
    /\ pc[i] = "settled" /\ strat[i] = "safe" /\ isPromise[i]
    /\ Len(regs[i]) = 3
    /\ regs[i][1].at = "running" /\ regs[i][2].at = "queued" /\ regs[i][3].at = "queued"
    /\ regs[i][2].kind = "throw"
    /\ order[i] = <<1, 2, 3>> /\ Len(warns) = 1

\* C38: a returned value that is not a native Promise, a thenable included,
\* is an immediate success: the engine is never left waiting, the drain runs
\* on the caller's stack before the engine returns, and the engine returns
\* (it does not resolve) with that very value where the strategy surfaces a
\* value, as tryCatch does; the engine's result is a Promise's only when a
\* native Promise was returned.
C38_OnlyNativePromisePends ==
  \A i \in Invs :
    /\ (res[i] # <<>> /\ res[i][1].kind # "promise") =>
         /\ ~isPromise[i]
         /\ acted[i] = <<[ok |-> TRUE, v |-> res[i][1]]>>
         /\ pc[i] \in {"draining", "settled"}
         /\ pc[i] = "draining" => Top = i
         /\ pc[i] = "settled" =>
              /\ InWindow(i) \subseteq Called(i)
              /\ ret[i].how = "return"
              /\ strat[i] \notin HandledStrategies => ret[i].val = res[i]
              /\ (strat[i] = "safe" /\ regs[i] = <<>>) => ret[i] = tryCatch(FALSE, acted[i][1])
    /\ (res[i] # <<>> /\ res[i][1].kind = "promise") => isPromise[i]
    /\ ret[i].how \in {"resolve", "reject"} =>
         (res[i] # <<>> /\ res[i][1].kind = "promise")

C38_Witness ==
  \E i \in Invs :
    /\ pc[i] = "settled" /\ strat[i] = "withDefer" /\ ~isPromise[i]
    /\ res[i] = <<JsThenable>>
    /\ order[i] = <<1, 2>>
    /\ ret[i].how = "return" /\ ret[i].val = <<JsThenable>> /\ ret[i].err = <<JsNull>>

\* invocation i settled its action before j did, and both still wait for
\* their continuation
SettledBefore(i, j) ==
  \E m, n \in 1..Len(jobs) : m < n /\ jobs[m] = i /\ jobs[n] = j

\* C35: invocations that are pending side by side: a drain starts only when
\* the invocation's own action has settled, and then as soon as the stack is
\* free, whatever state the other invocation is in; of two settled actions
\* the one that settled first is drained first, whichever was started first;
\* and a drain touches the queue, the calls and the state of its own
\* invocation only.
C35_ConcurrentPending ==
  /\ [](\A i \in DOMAIN pc :
          /\ order[i] # <<>> => acted[i] # <<>>
          /\ (pc[i] = "queued" /\ stack = <<>> /\ \A j \in DOMAIN pc : ~SettledBefore(j, i))
               => ENABLED Continuation(i))
  /\ [][\A i, j \in DOMAIN pc :
          /\ (pc[i] = "queued" /\ pc'[i] = "draining") => ~SettledBefore(j, i)
          /\ (i # j /\ (order'[i] # order[i] \/ pc[i] = "draining")) =>
               /\ deferQueue'[j] = deferQueue[j]
               /\ order'[j] = order[j]
               /\ pc'[j] = pc[j]
               /\ ret'[j] = ret[j]
     ]_vars

C35_Witness ==
  /\ parent["B"] = "none" /\ isPromise["A"] /\ isPromise["B"]
  /\ pc["B"] = "settled" /\ order["B"] = <<1, 2>> /\ ret["B"].how = "resolve"
  /\ pc["A"] = "queued" /\ jobs = <<"A">> /\ order["A"] = <<>>
  /\ Len(deferQueue["A"]) = 2

\* the console.warn calls made for invocation i, and the Promises its
\* callbacks returned that are still pending
WarnsOf(i) ==
  LET w == SelectSeq(warns, LAMBDA x : x.inv = i) IN
    [n \in 1..Len(w) |-> [rid |-> w[n].rid, async |-> w[n].async, args |-> w[n].args]]
TailsOf(i) ==
  {[rid |-> t.rid, rejects |-> t.rejects, caught |-> t.caught] : t \in {u \in tails : u.inv = i}}
\* the result says success
Succeeded(i) ==
  CASE strat[i] \in HandledStrategies -> handlerArgs[i] = <<>>
    [] strat[i] = "throwing" -> ret[i].how \in {"return", "resolve"}
    [] OTHER -> ret[i].err \in EmptySlot
\* success, or failure with the error shown
Outcome(i) ==
  [ok |-> Succeeded(i), err |-> IF Succeeded(i) THEN <<>> ELSE SurfacedError(i)]
\* A and B have both run to their end
BothSettled == pc["A"] = "settled" /\ pc["B"] = "settled"

\* C32: the same action given to two of defer.safe, defer.throwing and
\* defer.handled: the same callbacks are called in the same order, the same
\* warnings are logged, the same Promises of callbacks are left pending, and
\* both results say success, or both say failure with the same Error.
C32_DeferStrategiesAgree ==
  (BothSettled /\ strat["A"] \in DeferStrategies /\ strat["B"] \in DeferStrategies) =>
    /\ regs["A"] = regs["B"]
    /\ order["A"] = order["B"]
    /\ WarnsOf("A") = WarnsOf("B")
    /\ TailsOf("A") = TailsOf("B")
    /\ Outcome("A") = Outcome("B")
    /\ Succeeded("A") = acted["A"][1].ok

C32_Witness ==
  /\ BothSettled /\ strat["A"] = "throwing" /\ strat["B"] = "handled"
  /\ isPromise["A"] /\ acted["A"] = <<[ok |-> FALSE, v |-> JsNull]>>
  /\ Len(regs["B"]) = 3
  /\ regs["B"][1].kind = "throwValue" /\ regs["B"][2].kind = "registers"
  /\ order["B"] = <<1, 2, 3>>
  /\ ret["A"].err = handlerArgs["B"]

\* the Error e is what a normalizer makes of the thrown value v
NormalizedFrom(e, v) ==
  /\ Len(e) = 1
  /\ IsError(e[1])
  /\ IF IsError(v) THEN e[1] = v ELSE e[1].cause = <<v>>

CausedBy(e, v) ==
  /\ IsError(e)
  /\ \/ e.cause = <<v>>
     \/ (e.cause # <<>> /\ e.cause[1].cause = <<v>>)

\* C34: in a warning logged for a callback that threw a value which is not an
\* Error, no argument is that value itself, and one argument is an Error
\* made from it.
C34_DiagnosticIsNormalized ==
  \A k \in 1..Len(warns) :
    regs[warns[k].inv][warns[k].rid].kind = "throwValue" =>
      /\ \A a \in 1..Len(warns[k].args) : warns[k].args[a] # CleanupThrownValue
      /\ \E a \in 1..Len(warns[k].args) : CausedBy(warns[k].args[a], CleanupThrownValue)
====
